---- MODULE Spec2Model ----
(***************************************************************************)
(* Model of the job packaging, submission, polling and deployment logic of *)
(* mlp (src/mlp/utils/k8s.py).                                             *)
(*                                                                         *)
(* A character string is a sequence of one-character strings (a chunk such *)
(* as "data" or ".pyc" stands for that run of key-safe characters).        *)
(***************************************************************************)
EXTENDS Integers, Sequences, FiniteSets, TLC

VARIABLES
    \* ---- key encoding round trip (packager line 84, entrypoint lines 209-217)
    path,        \* a relative path below the packaged root
    key,         \* the bundle key computed for it
    restored,    \* the path the job entrypoint copies the key to, below /work
    ppc,         \* position of the round trip: "start", "encoded", "decoded"
    \* ---- the cluster, as the orchestrator API shows it
    configmaps,  \* the ConfigMap objects of the namespace
    jobs,        \* the Job objects of the namespace
    deployments, \* the Deployment objects of the namespace
    services,    \* the Service objects of the namespace
    now,         \* the clock, in seconds
    \* ---- the local machine
    tree,        \* the experiment directory: relative path -> file bytes
    target,      \* the directory a project is scaffolded in: whether it exists, its entries
    cmd,         \* one invocation of 'experiment run --wait': its position, the
                 \* configured and the current cluster context, the clients it made
    \* ---- the last call of a core operation
    bundle,      \* data and total_size as create_configmap_from_path left them
    packed,      \* the directory that call read, and the order it walked it in
    given,       \* the cpu, memory and gpu arguments of the last submission
    calls,       \* the orchestrator requests the call issued, in order
    outcome,     \* the operation, its arguments, and how it ended
    prev,        \* the outcome that the last model deployment call found
    listing,     \* the rows the last list_jobs / list_model_deployments call returned
    \* ---- one call of wait_for_job
    wpc,         \* its position: "check", "read", "sleep", or how it ended
    wjob,        \* job_name
    wstart,      \* start_time
    wtimeout,    \* timeout
    werr,        \* the exception it raised, None if none
    npolls,      \* status reads made so far, counted up to MaxPolls
    sawActive,   \* some read observed active > 0
    sawFailed,   \* some read observed failed > 0
    sawFailedOnly \* some read observed failed > 0 without active > 0

pathVars == <<path, key, restored, ppc>>
waitVars == <<wpc, wjob, wstart, wtimeout, werr, npolls, sawActive, sawFailed, sawFailedOnly>>

clusterVars == <<configmaps, jobs, deployments, services>>
opVars == <<bundle, packed, given, calls, outcome, prev>>
listVars == <<listing>>

vars == <<path, key, restored, ppc, configmaps, jobs, deployments, services, now,
          tree, target, cmd, bundle, packed, given, calls, outcome, prev, listing,
          wpc, wjob, wstart, wtimeout, werr, npolls, sawActive, sawFailed, sawFailedOnly>>

None == "None"

\* ------------------------------------- the parts a specification leaves out
NoCall == [op |-> "none", name |-> <<>>, arg |-> 0, raised |-> FALSE, err |-> None, ret |-> <<>>]

NoBundle == [data |-> <<>>, total_size |-> 0]

NoWalk == [tree |-> <<>>, order |-> <<>>]

NoArgs == [cpu |-> <<>>, memory |-> <<>>, gpu |-> 0]

NoDir == [exists |-> FALSE, entries |-> <<>>]

NoCmd == [pc |-> "idle", configured |-> "kind-mlp", current |-> "kind-mlp", log |-> <<>>]

OpIdle ==
    /\ bundle = NoBundle /\ packed = NoWalk /\ given = NoArgs
    /\ calls = <<>> /\ outcome = NoCall /\ prev = NoCall
    /\ listing = {}
    /\ target = NoDir
    /\ cmd = NoCmd

PathIdle == path = <<>> /\ key = <<>> /\ restored = <<>> /\ ppc = "idle"

WaitIdle ==
    /\ wpc = "idle" /\ wjob = <<>> /\ wstart = 0 /\ wtimeout = 0 /\ werr = None
    /\ npolls = 0 /\ sawActive = FALSE /\ sawFailed = FALSE /\ sawFailedOnly = FALSE

\* ------------------------------------------------------------------ bounds
MaxPathLen == 4
MaxFiles == 2      \* most files in a packaged directory
MaxReplicas == 2   \* largest replica count given to deploy_model
MaxClock == 1      \* last second of the clock in which commands are run
MaxJobs == 1       \* most Jobs in a listed namespace
MaxCount == 1      \* largest pod counter value the orchestrator reports
MaxTimeout == 4    \* largest timeout argument, in seconds
MaxPolls == 3      \* the count of status reads stops here
MaxLatency == 1    \* longest a status read takes / a sleep oversleeps, in seconds

\* -------------------------------------------------------- program constants
PollInterval == 2

\* ----------------------------------------------------------------- strings
RECURSIVE Replace(_, _, _)
\* str.replace(old, new) for a one-character old: every occurrence, left to right
Replace(s, old, new) ==
    IF s = <<>> THEN <<>>
    ELSE IF Head(s) = old THEN new \o Replace(Tail(s), old, new)
    ELSE <<Head(s)>> \o Replace(Tail(s), old, new)

\* the substring test  sub in s
Contains(s, sub) ==
    \E i \in 1..(Len(s) - Len(sub) + 1) : SubSeq(s, i, i + Len(sub) - 1) = sub

\* a string over the key-safe characters [-._a-zA-Z0-9]
KeySafe(c) == c \notin {"/", "\\", " ", "*"}

\* ------------------------------------------------------------ key encoding
\* key = str(relative_path).replace("\\", "__").replace("/", "__")
EncodeKey(p) == Replace(Replace(p, "\\", <<"_", "_">>), "/", <<"_", "_">>)

RECURSIVE SedUnderscores(_)
\* sed 's/__/\//g': non-overlapping matches of "__", leftmost first
SedUnderscores(k) ==
    IF Len(k) >= 2 /\ k[1] = "_" /\ k[2] = "_"
        THEN <<"/">> \o SedUnderscores(SubSeq(k, 3, Len(k)))
    ELSE IF k = <<>> THEN <<>>
    ELSE <<Head(k)>> \o SedUnderscores(Tail(k))

\* the target of the entrypoint's copy, relative to /work
DecodeKey(k) == IF Contains(k, <<"_", "_">>) THEN SedUnderscores(k) ELSE k

\* ------------------------------------------------------------ path inputs
PathChars == {"a", "_", "/", "\\", " "}

Strings(n) == UNION {[1..m -> PathChars] : m \in 1..n}

\* str(file_path.relative_to(path)) of a file below the root on a POSIX
\* system: non-empty segments separated by single "/"
IsRelPath(p) ==
    /\ Len(p) >= 1
    /\ p[1] # "/"
    /\ p[Len(p)] # "/"
    /\ \A i \in 1..(Len(p) - 1) : ~(p[i] = "/" /\ p[i + 1] = "/")

RelPaths == {p \in Strings(MaxPathLen) : IsRelPath(p)}

\* ------------------------------------------------------------ file contents
\* file bytes are integers 0..255; a str is the sequence of its code points
RECURSIVE UniversalNewlines(_)
\* text mode with newline=None: "\r\n" and "\r" are read as "\n"
UniversalNewlines(t) ==
    IF t = <<>> THEN <<>>
    ELSE IF Len(t) >= 2 /\ t[1] = 13 /\ t[2] = 10
        THEN <<10>> \o UniversalNewlines(SubSeq(t, 3, Len(t)))
    ELSE IF t[1] = 13 THEN <<10>> \o UniversalNewlines(Tail(t))
    ELSE <<t[1]>> \o UniversalNewlines(Tail(t))

\* whether the bytes decode as UTF-8 (the sampled bytes are ASCII or 0xFF)
Decodable(bytes) == \A i \in 1..Len(bytes) : bytes[i] < 128

\* file_path.read_text() of decodable bytes
ReadText(bytes) == UniversalNewlines(bytes)

\* the base64 alphabet: the code point of digit d
B64Digit(d) ==
    IF d < 26 THEN 65 + d
    ELSE IF d < 52 THEN 97 + (d - 26)
    ELSE IF d < 62 THEN 48 + (d - 52)
    ELSE IF d = 62 THEN 43 ELSE 47

RECURSIVE B64Encode(_)
\* base64.b64encode(bytes).decode()
B64Encode(bytes) ==
    IF bytes = <<>> THEN <<>>
    ELSE LET n == IF Len(bytes) >= 3 THEN 3 ELSE Len(bytes)
             b1 == bytes[1]
             b2 == IF n >= 2 THEN bytes[2] ELSE 0
             b3 == IF n >= 3 THEN bytes[3] ELSE 0
             d1 == b1 \div 4
             d2 == (b1 % 4) * 16 + (b2 \div 16)
             d3 == (b2 % 16) * 4 + (b3 \div 64)
             d4 == b3 % 64
         IN <<B64Digit(d1), B64Digit(d2),
              IF n >= 2 THEN B64Digit(d3) ELSE 61,
              IF n >= 3 THEN B64Digit(d4) ELSE 61>>
            \o B64Encode(SubSeq(bytes, n + 1, Len(bytes)))

\* lines 85-94: the value stored for a file
EncodedContent(bytes) ==
    IF Decodable(bytes) THEN ReadText(bytes) ELSE B64Encode(bytes)

\* ---------------------------------------------------------- exclusion rules
\* lines 55-59
exclude_patterns == <<
    <<"mlruns">>, <<"models">>, <<".git">>, <<"_", "_", "pycache", "_", "_">>,
    <<".ipynb_checkpoints">>, <<"data">>, <<"notebooks">>, <<".dvc">>,
    <<".pytest_cache">>, <<".venv">>, <<"venv">>,
    <<"*", ".pyc">>, <<"*", ".pyo">>, <<"*", ".pyd">>, <<".DS_Store">>,
    <<"*", ".egg-info">> >>

RECURSIVE Parts(_)
\* relative.parts: the segments of a relative path
Parts(p) ==
    IF \E i \in 1..Len(p) : p[i] = "/"
        THEN LET i == CHOOSE k \in 1..Len(p) :
                          p[k] = "/" /\ \A m \in 1..(k - 1) : p[m] # "/"
             IN <<SubSeq(p, 1, i - 1)>> \o Parts(SubSeq(p, i + 1, Len(p)))
        ELSE <<p>>

\* file_path.name
FileName(p) == LET ps == Parts(p) IN ps[Len(ps)]

\* str.endswith
EndsWith(s, suffix) ==
    Len(s) >= Len(suffix) /\ SubSeq(s, Len(s) - Len(suffix) + 1, Len(s)) = suffix

\* mutant: the suffix test is made on every segment of the path
should_exclude_any_segment(p) ==
    \E n \in 1..Len(exclude_patterns) :
        LET pattern == exclude_patterns[n] IN
        \/ \E i \in 1..Len(Parts(p)) : Parts(p)[i] = pattern
        \/ /\ \E i \in 1..Len(pattern) : pattern[i] = "*"
           /\ \E i \in 1..Len(Parts(p)) : EndsWith(Parts(p)[i], Tail(pattern))

\* lines 61-74
should_exclude(p) ==
    \E n \in 1..Len(exclude_patterns) :
        LET pattern == exclude_patterns[n] IN
        \/ \E i \in 1..Len(Parts(p)) : Parts(p)[i] = pattern
        \/ /\ \E i \in 1..Len(pattern) : pattern[i] = "*"
           /\ EndsWith(FileName(p), Tail(pattern))

\* ------------------------------------------------------------- directories
\* sampled file names and file bytes of an experiment directory
SamplePaths == {
    <<"a", "/", "b">>, <<"a", "_", "_", "b">>, <<"a", " ", "b">>,
    <<"train", ".py">>, <<"data", "/", "b">>, <<"b", ".pyc">> }

SampleBytes == { <<>>, <<97>>, <<97, 13, 10>>, <<255, 97>> }

\* the directories a file lies in
DirsOf(p) == {SubSeq(p, 1, i - 1) : i \in {k \in 1..Len(p) : p[k] = "/"}}

\* a directory tree: no file stands where another file needs a directory
IsTree(t) == \A p \in DOMAIN t, q \in DOMAIN t : p \notin DirsOf(q)

Trees(n) ==
    {t \in UNION {[ps -> SampleBytes] :
                     ps \in {x \in SUBSET SamplePaths : Cardinality(x) <= n}} :
        IsTree(t)}

\* the directories of at most n files with the given names and contents
TreesOf(paths, contents, n) ==
    {t \in UNION {[ps -> contents] :
                     ps \in {x \in SUBSET paths : Cardinality(x) <= n}} :
        IsTree(t)}

\* mutant: the walk keeps every file
IncludedAll(t) == DOMAIN t

\* line 80: the files the walk keeps
Included(t) == {p \in DOMAIN t : ~should_exclude(p)}

\* the orders in which path.rglob("*") may yield the kept files
WalkOrders(t) ==
    {o \in [1..Cardinality(Included(t)) -> Included(t)] :
        \A i, j \in DOMAIN o : i # j => o[i] # o[j]}

RECURSIVE WalkFrom(_, _, _)
\* lines 77-94: data and total_size after the walk visits the files of order
WalkFrom(t, order, acc) ==
    IF order = <<>> THEN acc
    ELSE LET k == EncodeKey(Head(order))
             content == EncodedContent(t[Head(order)])
             data == [x \in DOMAIN acc.data \cup {k} |->
                         IF x = k THEN content ELSE acc.data[x]]
         IN WalkFrom(t, Tail(order),
                     [data |-> data, total_size |-> acc.total_size + Len(content)])

Walk(t, order) == WalkFrom(t, order, NoBundle)

\* ------------------------------------------------------------- entrypoint
RECURSIVE Utf8(_)
\* the bytes of a ConfigMap value as the volume mount shows them: the UTF-8
\* encoding of its code points (those sampled are below 0x800)
Utf8(v) ==
    IF v = <<>> THEN <<>>
    ELSE IF v[1] < 128 THEN <<v[1]>> \o Utf8(Tail(v))
    ELSE <<192 + (v[1] \div 64), 128 + (v[1] % 64)>> \o Utf8(Tail(v))

\* lines 206-217: the files below /work after the loop copied every mounted
\* key f with cp, to /work/$(sed 's/__/\//g') or to /work/f
Unpack(data) ==
    [q \in {DecodeKey(k) : k \in DOMAIN data} |->
        Utf8(data[CHOOSE k \in DOMAIN data : DecodeKey(k) = q])]

\* -------------------------------------------------------- orchestrator API
\* an injected fault is the HTTP status of a request the orchestrator
\* rejects for a reason of its own (0: none)
FaultCodes == {0, 403}

\* the faults of one call, one per request it may issue: a call ends at its
\* first rejected request or ignores the rejection of its last one, so one
\* fault per call shows every behaviour
FaultPlans(n) ==
    {f \in [1..n -> FaultCodes] : \A i, j \in 1..n : (f[i] # 0 /\ f[j] # 0) => i = j}

Named(store, name) == {o \in store : o.name = name}

\* create_namespaced_*: 409 when an object of that name exists
ApiCreate(store, obj, fault) ==
    IF fault # 0 THEN [status |-> fault, store |-> store]
    ELSE IF Named(store, obj.name) # {} THEN [status |-> 409, store |-> store]
    ELSE [status |-> 201, store |-> store \cup {obj}]

\* replace_namespaced_*: 404 when no object of that name exists
ApiReplace(store, obj, fault) ==
    IF fault # 0 THEN [status |-> fault, store |-> store]
    ELSE IF Named(store, obj.name) = {} THEN [status |-> 404, store |-> store]
    ELSE [status |-> 200, store |-> (store \ Named(store, obj.name)) \cup {obj}]

\* delete_namespaced_*: 404 when no object of that name exists
ApiDelete(store, name, fault) ==
    IF fault # 0 THEN [status |-> fault, store |-> store]
    ELSE IF Named(store, name) = {} THEN [status |-> 404, store |-> store]
    ELSE [status |-> 200, store |-> store \ Named(store, name)]

\* a request as the call log records it
Request(verb, kind, name, status) ==
    [verb |-> verb, kind |-> kind, name |-> name, status |-> status]

Ok(status) == status \in {200, 201}

\* mutant: any rejected create falls back to replace
CreateOrReplaceOnAnyError(kind, store, obj, f1, f2) ==
    LET c == ApiCreate(store, obj, f1) IN
    IF Ok(c.status)
        THEN [store |-> c.store, raised |-> FALSE,
              calls |-> <<Request("create", kind, obj.name, c.status)>>]
    ELSE LET r == ApiReplace(store, obj, f2) IN
         [store |-> r.store, raised |-> ~Ok(r.status),
          calls |-> <<Request("create", kind, obj.name, c.status),
                      Request("replace", kind, obj.name, r.status)>>]

\* mutant: a name collision is logged and the existing object kept
CreateOrKeep(kind, store, obj, f1, f2) ==
    LET c == ApiCreate(store, obj, f1) IN
    [store |-> c.store, raised |-> ~(Ok(c.status) \/ c.status = 409),
     calls |-> <<Request("create", kind, obj.name, c.status)>>]

\* the try/except of lines 111-119, 580-588 and 606-614: create; on 409
\* replace; any other ApiException is raised (f1, f2: the faults injected
\* into the create and into the replace)
CreateOrReplace(kind, store, obj, f1, f2) ==
    LET c == ApiCreate(store, obj, f1) IN
    IF Ok(c.status)
        THEN [store |-> c.store, raised |-> FALSE,
              calls |-> <<Request("create", kind, obj.name, c.status)>>]
    ELSE IF c.status = 409
        THEN LET r == ApiReplace(store, obj, f2) IN
             [store |-> r.store, raised |-> ~Ok(r.status),
              calls |-> <<Request("create", kind, obj.name, c.status),
                          Request("replace", kind, obj.name, r.status)>>]
    ELSE [store |-> store, raised |-> TRUE,
          calls |-> <<Request("create", kind, obj.name, c.status)>>]

\* --------------------------------------------- create_configmap_from_path
\* mutant: a ConfigMap that exists under the name is left as it is
ConfigMapFromPathCreateOnly(name, t, order, f1, f2) ==
    LET b == Walk(t, order)
        c == ApiCreate(configmaps, [name |-> name, data |-> b.data], f1)
    IN [bundle |-> b, store |-> c.store,
        raised |-> ~(Ok(c.status) \/ c.status = 409),
        calls |-> <<Request("create", "configmap", name, c.status)>>]

\* lines 76-121: the walk, then the upsert of V1ConfigMap(name, data)
ConfigMapFromPath(name, t, order, f1, f2) ==
    LET b == Walk(t, order)
        u == CreateOrReplace("configmap", configmaps, [name |-> name, data |-> b.data], f1, f2)
    IN [bundle |-> b, store |-> u.store, raised |-> u.raised, calls |-> u.calls]

Result(op, name, arg, raised, ret) ==
    [op |-> op, name |-> name, arg |-> arg, raised |-> raised,
     err |-> IF raised THEN "ApiException" ELSE None,
     ret |-> IF raised THEN <<>> ELSE ret]

create_configmap_from_path(name) ==
    /\ \E order \in WalkOrders(tree), f \in FaultPlans(2) :
          LET r == ConfigMapFromPath(name, tree, order, f[1], f[2]) IN
          /\ configmaps' = r.store
          /\ bundle' = r.bundle
          /\ packed' = [tree |-> tree, order |-> order]
          /\ calls' = r.calls
          /\ outcome' = Result("create_configmap_from_path", name, 0, r.raised, name)
    /\ UNCHANGED <<given, prev>>
    /\ UNCHANGED <<jobs, deployments, services, now, tree, target, cmd>>
    /\ UNCHANGED <<pathVars, waitVars, listVars>>

\* ------------------------------------------------------------ deploy_model
ModelNames == {"m1", "m2"}
ReplicaVals == 1..MaxReplicas
Ports == {8080, 9090}

\* lines 573-578: the V1Deployment, as the orchestrator stores it: with the
\* time of the request as creation_timestamp and no ready replicas reported
DeploymentObject(model_name, replicas) ==
    [name |-> model_name, replicas |-> replicas, labels |-> {<<"type", "model-server">>},
     created |-> now, ready_replicas |-> <<>>]

\* lines 591-604: the V1Service
ServiceObject(model_name, port) == [name |-> model_name, port |-> port]

\* mutant: a failed Service upsert takes the Deployment back
DeployModelRollback(model_name, replicas, port, fd1, fd2, fs1, fs2) ==
    LET d == CreateOrReplace("deployment", deployments,
                             DeploymentObject(model_name, replicas), fd1, fd2)
        s == CreateOrReplace("service", services, ServiceObject(model_name, port), fs1, fs2)
    IN IF d.raised
          THEN [deployments |-> d.store, services |-> services,
                calls |-> d.calls, raised |-> TRUE]
          ELSE [deployments |-> IF s.raised THEN deployments ELSE d.store,
                services |-> s.store,
                calls |-> d.calls \o s.calls, raised |-> s.raised]

\* lines 580-614: the Deployment upsert, then the Service upsert
DeployModel(model_name, replicas, port, fd1, fd2, fs1, fs2) ==
    LET d == CreateOrReplace("deployment", deployments,
                             DeploymentObject(model_name, replicas), fd1, fd2)
        s == CreateOrReplace("service", services, ServiceObject(model_name, port), fs1, fs2)
    IN IF d.raised
          THEN [deployments |-> d.store, services |-> services,
                calls |-> d.calls, raised |-> TRUE]
          ELSE [deployments |-> d.store, services |-> s.store,
                calls |-> d.calls \o s.calls, raised |-> s.raised]

deploy_model(model_name) ==
    /\ \E replicas \in ReplicaVals, port \in Ports, f \in FaultPlans(4) :
          LET r == DeployModel(model_name, replicas, port, f[1], f[2], f[3], f[4]) IN
          /\ deployments' = r.deployments
          /\ services' = r.services
          /\ calls' = r.calls
          /\ outcome' = Result("deploy_model", model_name, replicas, r.raised, <<>>)
    /\ prev' = outcome
    /\ UNCHANGED <<configmaps, jobs, now, tree, target, cmd, bundle, packed, given>>
    /\ UNCHANGED <<pathVars, waitVars, listVars>>

\* lines 695-713: delete the Deployment; then the Service, ignoring a failure
DeleteModelDeployment(model_name, fd, fs) ==
    LET d == ApiDelete(deployments, model_name, fd)
        s == ApiDelete(services, model_name, fs)
    IN IF ~Ok(d.status)
          THEN [deployments |-> deployments, services |-> services, raised |-> TRUE,
                calls |-> <<Request("delete", "deployment", model_name, d.status)>>]
          ELSE [deployments |-> d.store, services |-> s.store, raised |-> FALSE,
                calls |-> <<Request("delete", "deployment", model_name, d.status),
                            Request("delete", "service", model_name, s.status)>>]

delete_model_deployment(model_name) ==
    /\ \E f \in FaultPlans(2) :
          LET r == DeleteModelDeployment(model_name, f[1], f[2]) IN
          /\ deployments' = r.deployments
          /\ services' = r.services
          /\ calls' = r.calls
          /\ outcome' = Result("delete_model_deployment", model_name, 0, r.raised, <<>>)
    /\ prev' = outcome
    /\ UNCHANGED <<configmaps, jobs, now, tree, target, cmd, bundle, packed, given>>
    /\ UNCHANGED <<pathVars, waitVars, listVars>>

\* ------------------------------------------------------------ job objects
\* an optional counter of a Job status: <<>> when absent (None), else <<n>>
CounterVals == {<<>>} \cup {<<n>> : n \in 0..MaxCount}

\* a Python condition  c and c > 0  on an optional counter
Pos(c) == c # <<>> /\ c[1] # 0 /\ c[1] > 0

RECURSIVE Str(_)
\* str(n) of an integer n >= 0: its decimal digits
Str(n) ==
    LET digit == <<"0", "1", "2", "3", "4", "5", "6", "7", "8", "9">>[(n % 10) + 1]
    IN IF n < 10 THEN <<digit>> ELSE Str(n \div 10) \o <<digit>>

\* with: d[key] = value on a dict
With(d, k, v) == [x \in DOMAIN d \cup {k} |-> IF x = k THEN v ELSE d[x]]

\* mutant: the GPU is added to the limits only
ResourcesGpuLimitOnly(cpu, memory, gpu) ==
    LET base == [k \in {"cpu", "memory"} |-> IF k = "cpu" THEN cpu ELSE memory]
    IN [requests |-> base,
        limits |-> IF gpu > 0 THEN With(base, "nvidia.com/gpu", Str(gpu)) ELSE base]

\* lines 169-184: the V1ResourceRequirements of the container
Resources(cpu, memory, gpu) ==
    LET base == [k \in {"cpu", "memory"} |-> IF k = "cpu" THEN cpu ELSE memory]
    IN IF gpu > 0
          THEN [requests |-> With(base, "nvidia.com/gpu", Str(gpu)),
                limits |-> With(base, "nvidia.com/gpu", Str(gpu))]
          ELSE [requests |-> base, limits |-> base]

\* experiment.py lines 193-208: the defaults of --cpu, --memory and --gpu
DefaultArgs == [cpu |-> <<"1">>, memory |-> <<"2", "Gi">>, gpu |-> 0]

\* lines 186-254: the V1Job that is submitted, as the orchestrator stores it
JobObject(name, created, configmap_name, args) ==
    [name |-> name, created |-> created, configmap |-> configmap_name,
     resources |-> Resources(args.cpu, args.memory, args.gpu),
     labels |-> {}, template_labels |-> {<<"app", "ml-training">>, <<"job", name>>},
     active |-> <<>>, succeeded |-> <<>>, failed |-> <<>>]

\* the job controller reports new pod counters
JobStatusUpdate ==
    /\ \E j \in jobs, a \in CounterVals, s \in CounterVals, f \in CounterVals :
          /\ <<a, s, f>> # <<j.active, j.succeeded, j.failed>>
          /\ jobs' = (jobs \ {j}) \cup
                {[j EXCEPT !.active = a, !.succeeded = s, !.failed = f]}
    /\ UNCHANGED <<configmaps, deployments, services, now, tree, target, cmd>>
    /\ UNCHANGED <<pathVars, opVars, waitVars, listVars>>

\* batch_api.read_namespaced_job(job_name, namespace)
ReadJob(name, fault) ==
    IF fault \/ ~\E j \in jobs : j.name = name
        THEN [ok |-> FALSE]
        ELSE [ok |-> TRUE, job |-> CHOOSE j \in jobs : j.name = name]

\* ------------------------------------------------------ submit_training_job
\* mutant: a name collision replaces the existing Job
SubmitTrainingJobUpsert(name, args, t, order, f1, f2, f3) ==
    LET job_name == <<name, now>>
        configmap_name == <<name, now, "code">>
        c == ConfigMapFromPath(configmap_name, t, order, f1, f2)
        j == CreateOrReplace("job", jobs, JobObject(job_name, now, configmap_name, args), f3, 0)
    IN IF c.raised
          THEN [bundle |-> c.bundle, configmaps |-> c.store, jobs |-> jobs,
                calls |-> c.calls, raised |-> TRUE, ret |-> <<>>]
          ELSE [bundle |-> c.bundle, configmaps |-> c.store, jobs |-> j.store,
                calls |-> c.calls \o j.calls, raised |-> j.raised, ret |-> job_name]

\* mutant: the Job is created before its ConfigMap is upserted
SubmitTrainingJobJobFirst(name, args, t, order, f1, f2, f3) ==
    LET job_name == <<name, now>>
        configmap_name == <<name, now, "code">>
        j == ApiCreate(jobs, JobObject(job_name, now, configmap_name, args), f3)
        c == ConfigMapFromPath(configmap_name, t, order, f1, f2)
    IN IF ~Ok(j.status)
          THEN [bundle |-> NoBundle, configmaps |-> configmaps, jobs |-> jobs,
                calls |-> <<Request("create", "job", job_name, j.status)>>,
                raised |-> TRUE, ret |-> <<>>]
          ELSE [bundle |-> c.bundle, configmaps |-> c.store, jobs |-> j.store,
                calls |-> <<Request("create", "job", job_name, j.status)>> \o c.calls,
                raised |-> c.raised, ret |-> job_name]

\* mutant: a rejected Job create deletes the ConfigMap again
SubmitTrainingJobCleanup(name, args, t, order, f1, f2, f3) ==
    LET job_name == <<name, now>>
        configmap_name == <<name, now, "code">>
        c == ConfigMapFromPath(configmap_name, t, order, f1, f2)
        j == ApiCreate(jobs, JobObject(job_name, now, configmap_name, args), f3)
    IN IF c.raised
          THEN [bundle |-> c.bundle, configmaps |-> c.store, jobs |-> jobs,
                calls |-> c.calls, raised |-> TRUE, ret |-> <<>>]
       ELSE IF ~Ok(j.status)
          THEN [bundle |-> c.bundle,
                configmaps |-> c.store \ Named(c.store, configmap_name), jobs |-> jobs,
                calls |-> c.calls \o <<Request("create", "job", job_name, j.status),
                                        Request("delete", "configmap", configmap_name, 200)>>,
                raised |-> TRUE, ret |-> <<>>]
          ELSE [bundle |-> c.bundle, configmaps |-> c.store, jobs |-> j.store,
                calls |-> c.calls \o <<Request("create", "job", job_name, j.status)>>,
                raised |-> FALSE, ret |-> job_name]

\* lines 149-262: name the job after the clock, upsert its ConfigMap, create
\* the Job; any ApiException of the create is raised
SubmitTrainingJob(name, args, t, order, f1, f2, f3) ==
    LET job_name == <<name, now>>
        configmap_name == <<name, now, "code">>
        c == ConfigMapFromPath(configmap_name, t, order, f1, f2)
        j == ApiCreate(jobs, JobObject(job_name, now, configmap_name, args), f3)
    IN IF c.raised
          THEN [bundle |-> c.bundle, configmaps |-> c.store, jobs |-> jobs,
                calls |-> c.calls, raised |-> TRUE, ret |-> <<>>]
          ELSE [bundle |-> c.bundle, configmaps |-> c.store, jobs |-> j.store,
                calls |-> c.calls \o <<Request("create", "job", job_name, j.status)>>,
                raised |-> ~Ok(j.status), ret |-> job_name]

submit_training_job(name, args) ==
    /\ \E order \in WalkOrders(tree), f \in FaultPlans(3) :
          LET r == SubmitTrainingJob(name, args, tree, order, f[1], f[2], f[3]) IN
          /\ configmaps' = r.configmaps
          /\ jobs' = r.jobs
          /\ bundle' = r.bundle
          /\ packed' = [tree |-> tree, order |-> order]
          /\ given' = args
          /\ calls' = r.calls
          /\ outcome' = Result("submit_training_job", name, now, r.raised, r.ret)
    /\ UNCHANGED prev
    /\ UNCHANGED <<deployments, services, now, tree, target, cmd>>
    /\ UNCHANGED <<pathVars, waitVars, listVars>>

\* mutant: a failure of the ConfigMap delete is raised
DeleteJobStrict(job_name, fj, fc) ==
    LET j == ApiDelete(jobs, job_name, fj)
        configmap_name == job_name \o <<"code">>
        c == ApiDelete(configmaps, configmap_name, fc)
    IN IF ~Ok(j.status)
          THEN [jobs |-> jobs, configmaps |-> configmaps, raised |-> TRUE,
                calls |-> <<Request("delete", "job", job_name, j.status)>>]
          ELSE [jobs |-> j.store, configmaps |-> c.store, raised |-> ~Ok(c.status),
                calls |-> <<Request("delete", "job", job_name, j.status),
                            Request("delete", "configmap", configmap_name, c.status)>>]

\* lines 406-427: delete the Job; then its ConfigMap, ignoring a failure
DeleteJob(job_name, fj, fc) ==
    LET j == ApiDelete(jobs, job_name, fj)
        configmap_name == job_name \o <<"code">>
        c == ApiDelete(configmaps, configmap_name, fc)
    IN IF ~Ok(j.status)
          THEN [jobs |-> jobs, configmaps |-> configmaps, raised |-> TRUE,
                calls |-> <<Request("delete", "job", job_name, j.status)>>]
          ELSE [jobs |-> j.store, configmaps |-> c.store, raised |-> FALSE,
                calls |-> <<Request("delete", "job", job_name, j.status),
                            Request("delete", "configmap", configmap_name, c.status)>>]

delete_job(job_name) ==
    /\ \E f \in FaultPlans(2) :
          LET r == DeleteJob(job_name, f[1], f[2]) IN
          /\ jobs' = r.jobs
          /\ configmaps' = r.configmaps
          /\ calls' = r.calls
          /\ outcome' = Result("delete_job", job_name, 0, r.raised, <<>>)
    /\ UNCHANGED prev
    /\ UNCHANGED <<deployments, services, now, tree, target, cmd, bundle, packed, given>>
    /\ UNCHANGED <<pathVars, waitVars, listVars>>

\* ------------------------------------------------------------ environment
\* a second passes on the clock that time.time() reads
Tick ==
    /\ now < MaxClock
    /\ now' = now + 1
    /\ UNCHANGED <<clusterVars, tree, target, cmd, pathVars, opVars, waitVars, listVars>>

\* the experiment directories of the submissions
SubmitTrees == {
    [p \in {<<"train", ".py">>} |-> <<97>>],
    [p \in {<<"train", ".py">>, <<"a", "/", "b">>} |->
        IF p = <<"a", "/", "b">> THEN <<255, 97>> ELSE <<97, 13, 10>>] }

\* the user edits the experiment directory between two commands
EditTree ==
    /\ tree' \in SubmitTrees \ {tree}
    /\ UNCHANGED <<clusterVars, now, target, cmd, pathVars, opVars, waitVars, listVars>>

\* ---------------------------------------------------------------- list_jobs
\* mutant: a finished job counts as Completed although pods are active
DerivedStatusCompletedFirst(job) ==
    IF Pos(job.succeeded) THEN "Completed"
    ELSE IF Pos(job.active) THEN "Running"
    ELSE IF Pos(job.failed) THEN "Failed"
    ELSE "Unknown"

\* lines 356-362
DerivedStatus(job) ==
    IF Pos(job.active) THEN "Running"
    ELSE IF Pos(job.succeeded) THEN "Completed"
    ELSE IF Pos(job.failed) THEN "Failed"
    ELSE "Unknown"

\* mutant: a job of unknown status passes every filter
KeptByOrUnknown(status_filter, status) ==
    \/ status = "Unknown"
    \/ ~(status_filter # "all" /\
           \/ status_filter = "running" /\ status # "Running"
           \/ status_filter = "completed" /\ status # "Completed"
           \/ status_filter = "failed" /\ status # "Failed")

\* lines 365-371: whether the filter keeps a job of that status
KeptBy(status_filter, status) ==
    ~(status_filter # "all" /\
        \/ status_filter = "running" /\ status # "Running"
        \/ status_filter = "completed" /\ status # "Completed"
        \/ status_filter = "failed" /\ status # "Failed")

\* lines 376-383: the age string, as <<number, unit>>
AgeString(age) ==
    IF age < 60 THEN <<age, "s">>
    ELSE IF age < 3600 THEN <<age \div 60, "m">>
    ELSE IF age < 86400 THEN <<age \div 3600, "h">>
    ELSE <<age \div 86400, "d">>

\* job.status.succeeded or 0
OrZero(c) == IF c = <<>> THEN 0 ELSE c[1]

\* lines 349-352: the Jobs the label selector app=ml-training matches
Selected(store) == {j \in store : <<"app", "ml-training">> \in j.labels}

\* lines 354-392
ListJobs(status_filter) ==
    {[name |-> j.name, status |-> DerivedStatus(j),
      age |-> AgeString(now - j.created), completions |-> OrZero(j.succeeded)] :
        j \in {x \in Selected(jobs) : KeptBy(status_filter, DerivedStatus(x))}}

StatusFilters == {"all", "running", "completed", "failed"}

list_jobs ==
    /\ \E status_filter \in StatusFilters, fault \in FaultCodes :
          /\ listing' = IF fault # 0 THEN {} ELSE ListJobs(status_filter)
          /\ calls' = <<Request("list", "job", <<"app", "ml-training">>,
                                IF fault # 0 THEN fault ELSE 200)>>
          /\ outcome' = Result("list_jobs", <<status_filter>>, 0, fault # 0, <<>>)
    /\ UNCHANGED prev
    /\ UNCHANGED <<clusterVars, now, tree, target, cmd, bundle, packed, given>>
    /\ UNCHANGED <<pathVars, waitVars>>

\* ---------------------------------------------------- list_model_deployments
\* mutant: the age is rounded to the nearest unit
DeploymentAgeStringRounded(age) ==
    IF age < 60 THEN <<age, "s">>
    ELSE IF age < 3600 THEN <<(age + 30) \div 60, "m">>
    ELSE IF age < 86400 THEN <<(age + 1800) \div 3600, "h">>
    ELSE <<(age + 43200) \div 86400, "d">>

\* lines 660-667: the age string, as <<number, unit>>
DeploymentAgeString(age) ==
    IF age < 60 THEN <<age, "s">>
    ELSE IF age < 3600 THEN <<age \div 60, "m">>
    ELSE IF age < 86400 THEN <<age \div 3600, "h">>
    ELSE <<age \div 86400, "d">>

\* lines 631-634: the Deployments the label selector type=model-server matches
SelectedDeployments(store) == {d \in store : <<"type", "model-server">> \in d.labels}

\* lines 638-640
Available(d) == OrZero(d.ready_replicas) = d.replicas /\ d.replicas > 0

\* lines 642-646: whether the filter keeps a deployment
KeptDeployment(status_filter, d) ==
    /\ ~(status_filter = "available" /\ ~Available(d))
    /\ ~(status_filter = "unavailable" /\ Available(d))

\* lines 648-655: the service URL, <<>> when the Service cannot be read
ServiceUrl(name, sfault) ==
    IF sfault \/ Named(services, name) = {} THEN <<>>
    ELSE LET svc == CHOOSE x \in Named(services, name) : TRUE IN <<svc.name, svc.port>>

\* lines 636-677
ListModelDeployments(status_filter, sfault) ==
    {[name |-> d.name, replicas |-> d.replicas,
      ready_replicas |-> OrZero(d.ready_replicas), available |-> Available(d),
      age |-> DeploymentAgeString(now - d.created),
      service_url |-> ServiceUrl(d.name, sfault)] :
        d \in {x \in SelectedDeployments(deployments) : KeptDeployment(status_filter, x)}}

RECURSIVE ServiceReads(_, _)
\* line 650: one read_namespaced_service per kept deployment
ServiceReads(names, sfault) ==
    IF names = {} THEN <<>>
    ELSE LET n == CHOOSE x \in names : TRUE
         IN <<Request("read", "service", n,
                      IF sfault THEN 403
                      ELSE IF Named(services, n) = {} THEN 404 ELSE 200)>>
            \o ServiceReads(names \ {n}, sfault)

DeploymentFilters == {"all", "available", "unavailable"}

list_model_deployments ==
    /\ \E status_filter \in DeploymentFilters, fault \in FaultCodes, sfault \in BOOLEAN :
          LET rows == ListModelDeployments(status_filter, sfault) IN
          /\ listing' = IF fault # 0 THEN {} ELSE rows
          /\ calls' = IF fault # 0
                          THEN <<Request("list", "deployment", <<"type", "model-server">>, fault)>>
                          ELSE <<Request("list", "deployment", <<"type", "model-server">>, 200)>>
                               \o ServiceReads({r.name : r \in rows}, sfault)
          /\ outcome' = Result("list_model_deployments", <<status_filter>>, 0, fault # 0, <<>>)
    /\ UNCHANGED prev
    /\ UNCHANGED <<clusterVars, now, tree, target, cmd, bundle, packed, given>>
    /\ UNCHANGED <<pathVars, waitVars>>

\* ------------------------------------------------------------- validators
\* the characters of [a-z0-9]
LowerOrDigit == {
    "a", "b", "c", "d", "e", "f", "g", "h", "i", "j", "k", "l", "m",
    "n", "o", "p", "q", "r", "s", "t", "u", "v", "w", "x", "y", "z",
    "0", "1", "2", "3", "4", "5", "6", "7", "8", "9" }

\* validate_name: re.match(r'^[a-z0-9][a-z0-9-_]{2,49}$', name), where $ also
\* matches before one newline that ends the string
validate_name(name) ==
    LET body == IF name # <<>> /\ name[Len(name)] = "\n"
                   THEN SubSeq(name, 1, Len(name) - 1) ELSE name
    IN /\ Len(body) >= 3 /\ Len(body) <= 50
       /\ body[1] \in LowerOrDigit
       /\ \A i \in 2..Len(body) : body[i] \in LowerOrDigit \cup {"-", "_"}

\* "=" in e
HasEquals(e) == \E i \in 1..Len(e) : e[i] = "="

\* ---------------------------------------------------------------- commands
\* the names and the --env options a command is invoked with
CmdNames == {
    <<"e", "x", "p">>, <<"e", "x">>, <<"-", "e", "x">>, <<"E", "x", "p">>,
    <<"e", " ", "p">>, [i \in 1..51 |-> "a"] }

Envs == {
    <<>>,
    << <<"K", "=", "V">> >>,
    << <<"K", "V">> >>,
    << <<"K", "=", "V">>, <<"K", "V">> >>,
    << <<"K", "V">>, <<"=">> >> }

\* how a command that reaches no orchestrator call, or a later one, is recorded
CmdResult(op, name, env, aborted, ret) ==
    [op |-> op, name |-> name, arg |-> env, raised |-> aborted,
     err |-> IF aborted THEN "Abort" ELSE None,
     ret |-> IF aborted THEN <<>> ELSE ret]

\* mutant: the --env options are not checked
RunChecksNameOnly(name, env, confirm) ==
    IF ~validate_name(name) THEN "abort"
    ELSE IF ~confirm THEN "cancel"
    ELSE "submit"

\* experiment.py lines 244-305: the name is validated, then the --env
\* options are parsed, then the user is asked to confirm
RunChecks(name, env, confirm) ==
    IF ~validate_name(name) THEN "abort"
    ELSE IF \E i \in 1..Len(env) : ~HasEquals(env[i]) THEN "abort"
    ELSE IF ~confirm THEN "cancel"
    ELSE "submit"

\* experiment.py lines 222-338, 'experiment run' without --wait: after the
\* checks the job is submitted; any exception ends in click.Abort
experiment_run ==
    /\ \E name \in CmdNames, env \in Envs, confirm \in BOOLEAN :
          LET c == RunChecks(name, env, confirm) IN
          IF c # "submit"
             THEN /\ calls' = <<>>
                  /\ outcome' = CmdResult("experiment run", name, env, c = "abort", <<>>)
                  /\ UNCHANGED <<configmaps, jobs, bundle, packed, given>>
             ELSE \E order \in WalkOrders(tree), f \in FaultPlans(3) :
                     LET r == SubmitTrainingJob(name, DefaultArgs, tree, order, f[1], f[2], f[3]) IN
                     /\ calls' = r.calls
                     /\ outcome' = CmdResult("experiment run", name, env, r.raised, r.ret)
                     /\ configmaps' = r.configmaps
                     /\ jobs' = r.jobs
                     /\ bundle' = r.bundle
                     /\ packed' = [tree |-> tree, order |-> order]
                     /\ given' = DefaultArgs
    /\ UNCHANGED prev
    /\ UNCHANGED <<deployments, services, now, tree, target, cmd>>
    /\ UNCHANGED <<pathVars, waitVars, listVars>>

\* k8s.py lines 716-734: get_model_service_url reads the Service and turns
\* any ApiException into None
ServiceUrlRead(model_name, store, fault) ==
    Request("read", "service", model_name,
            IF fault # 0 THEN fault ELSE IF Named(store, model_name) = {} THEN 404 ELSE 200)

\* model.py lines 75-119: the name is validated, then the --env options are
\* parsed, then the user is asked to confirm
DeployChecks(model_name, env, confirm) ==
    IF ~validate_name(model_name) THEN "abort"
    ELSE IF \E i \in 1..Len(env) : ~HasEquals(env[i]) THEN "abort"
    ELSE IF ~confirm THEN "cancel"
    ELSE "deploy"

\* model.py lines 66-150, 'model deploy': after the checks the model is
\* deployed and the service URL is read; any exception of the deployment
\* ends in click.Abort
model_deploy ==
    /\ \E model_name \in CmdNames, env \in Envs, confirm \in BOOLEAN :
          LET c == DeployChecks(model_name, env, confirm) IN
          IF c # "deploy"
             THEN /\ calls' = <<>>
                  /\ outcome' = CmdResult("model deploy", model_name, env, c = "abort", <<>>)
                  /\ UNCHANGED <<deployments, services>>
             ELSE \E replicas \in ReplicaVals, port \in Ports, f \in FaultPlans(5) :
                     LET r == DeployModel(model_name, replicas, port, f[1], f[2], f[3], f[4]) IN
                     /\ calls' = IF r.raised THEN r.calls
                                 ELSE r.calls \o <<ServiceUrlRead(model_name, r.services, f[5])>>
                     /\ outcome' = CmdResult("model deploy", model_name, env, r.raised, <<>>)
                     /\ deployments' = r.deployments
                     /\ services' = r.services
    /\ UNCHANGED prev
    /\ UNCHANGED <<configmaps, jobs, now, tree, target, cmd, bundle, packed, given>>
    /\ UNCHANGED <<pathVars, waitVars, listVars>>

\* --------------------------------------------------------- scaffold_project
\* templates.py line 41
valid_templates == <<"simple", "pytorch", "tensorflow", "sklearn">>

\* templates.py lines 66-73: the output files that are rendered
MappedFiles == {
    <<"train.py">>, <<"requirements.txt">>, <<"README.md">>, <<".gitignore">>,
    <<".dvcignore">>, <<"config.yaml">> }

\* templates.py lines 91-96: the .gitkeep files of the additional directories
KeptDirs == {
    <<"data", "/", ".gitkeep">>, <<"models", "/", ".gitkeep">>,
    <<"notebooks", "/", ".gitkeep">>, <<"src", "/", ".gitkeep">> }

\* templates.py lines 99-127: what 'dvc init' and 'git init' leave when they run
ToolDirs == {<<".dvc">>, <<".git">>}

\* templates.py lines 76-88: the sets of files whose rendering or writing
\* raises, which the loop logs and skips
SkipSets == {{}, {<<"train.py">>}, MappedFiles}

\* what the call leaves under an entry it creates
NewContent(template, p) ==
    IF p \in MappedFiles THEN <<"rendered", template>>
    ELSE IF p \in KeptDirs THEN <<"empty">>
    ELSE <<"repository">>

ScaffoldError(found, err) == [target |-> found, raised |-> TRUE, err |-> err, ret |-> {}]

\* mutant: with force the project is written over the existing directory
ScaffoldProjectOverwrite(found, template, force, skipped, tools, rmfault) ==
    IF ~\E i \in 1..Len(valid_templates) : valid_templates[i] = template
        THEN ScaffoldError(found, "ValueError")
    ELSE IF found.exists /\ ~force THEN ScaffoldError(found, "FileExistsError")
    ELSE IF found.exists /\ rmfault THEN ScaffoldError(found, "OSError")
    ELSE LET created == (MappedFiles \ skipped) \cup KeptDirs \cup tools
         IN [target |-> [exists |-> TRUE,
                         entries |-> [p \in DOMAIN found.entries \cup created |->
                                         IF p \in created THEN NewContent(template, p)
                                         ELSE found.entries[p]]],
             raised |-> FALSE, err |-> None, ret |-> created]

\* templates.py lines 40-127: the template is validated; an existing target
\* is refused without force and removed with it (rmfault: shutil.rmtree
\* raises, having removed nothing); then the directory is made, the files
\* that render are written, the additional directories are made, and dvc and
\* git initialise the repository if they are installed
ScaffoldProject(found, template, force, skipped, tools, rmfault) ==
    IF ~\E i \in 1..Len(valid_templates) : valid_templates[i] = template
        THEN ScaffoldError(found, "ValueError")
    ELSE IF found.exists /\ ~force THEN ScaffoldError(found, "FileExistsError")
    ELSE IF found.exists /\ rmfault THEN ScaffoldError(found, "OSError")
    ELSE LET created == (MappedFiles \ skipped) \cup KeptDirs \cup tools
         IN [target |-> [exists |-> TRUE,
                         entries |-> [p \in created |-> NewContent(template, p)]],
             raised |-> FALSE, err |-> None, ret |-> created]

TemplateArgs == {"simple", "pytorch", "tensorflow", "sklearn", "invalid"}

scaffold_project ==
    /\ \E template \in TemplateArgs, force \in BOOLEAN, skipped \in SkipSets,
          tools \in SUBSET ToolDirs, rmfault \in BOOLEAN :
          LET r == ScaffoldProject(target, template, force, skipped, tools, rmfault) IN
          /\ target' = r.target
          /\ calls' = <<>>
          /\ outcome' = [op |-> "scaffold_project", name |-> template,
                         arg |-> [force |-> force, found |-> target],
                         raised |-> r.raised, err |-> r.err, ret |-> r.ret]
    /\ UNCHANGED <<bundle, packed, given, prev>>
    /\ UNCHANGED <<clusterVars, now, tree, cmd>>
    /\ UNCHANGED <<pathVars, waitVars, listVars>>

\* ----------------------------------------------------------- wait_for_job
TimeoutVals == (-1)..MaxTimeout

WaitDone == wpc \in {"returned", "raised"}

\* mutant: the failure test comes first
PollVerdictFailedFirst(job) ==
    IF Pos(job.failed) THEN "job_failed"
    ELSE IF Pos(job.active) THEN "return"
    ELSE "sleep"

\* mutant: a failed job is waited for like a pending one
PollVerdictNoFailure(job) ==
    IF Pos(job.active) THEN "return" ELSE "sleep"

\* lines 281-290: what one read of the job leads to
PollVerdict(job) ==
    IF Pos(job.active) THEN "return"
    ELSE IF Pos(job.failed) THEN "job_failed"
    ELSE "sleep"

\* mutant: the loop does not sleep
NoSleep(oversleep) == 0

\* time.sleep(2): the time the sleep takes
SleepTime(oversleep) == PollInterval + oversleep

\* mutant: the loop is entered once more when the timeout has just run out
InTimeInclusive(elapsed, timeout) == elapsed <= timeout

\* line 276: the loop condition  time.time() - start_time < timeout
InTime(elapsed, timeout) == elapsed < timeout

\* line 276: while time.time() - start_time < timeout
WaitCheck ==
    /\ wpc = "check"
    /\ IF InTime(now - wstart, wtimeout)
          THEN wpc' = "read" /\ werr' = werr
          ELSE wpc' = "raised" /\ werr' = "TimeoutError"
    /\ UNCHANGED <<wjob, wstart, wtimeout, npolls, sawActive, sawFailed, sawFailedOnly>>
    /\ UNCHANGED <<clusterVars, now, tree, target, cmd, pathVars, opVars, listVars>>

\* lines 17-34: the context the clients of get_k8s_client talk to;
\* load_kube_config(context=None) takes the current context of the kubeconfig
get_k8s_client(kubernetes_context, current) ==
    IF kubernetes_context = None THEN current ELSE kubernetes_context

\* line 273: wait_for_job makes its client without a context, so its reads go
\* to the current context; a job that was submitted to another cluster is
\* not found there
ReadFaults ==
    IF get_k8s_client(None, cmd.current) # cmd.configured THEN {TRUE} ELSE BOOLEAN

\* lines 277-293: one status read and the tests on it
WaitRead ==
    /\ wpc = "read"
    /\ \E fault \in ReadFaults, latency \in 0..MaxLatency :
          LET r == ReadJob(wjob, fault) IN
          /\ now' = now + latency
          /\ npolls' = IF npolls < MaxPolls THEN npolls + 1 ELSE npolls
          /\ IF ~r.ok
                THEN /\ wpc' = "raised"
                     /\ werr' = "ApiException"
                     /\ UNCHANGED <<sawActive, sawFailed, sawFailedOnly>>
                ELSE /\ sawActive' = (sawActive \/ Pos(r.job.active))
                     /\ sawFailed' = (sawFailed \/ Pos(r.job.failed))
                     /\ sawFailedOnly' =
                           (sawFailedOnly \/ (Pos(r.job.failed) /\ ~Pos(r.job.active)))
                     /\ LET v == PollVerdict(r.job) IN
                        /\ wpc' = CASE v = "return" -> "returned"
                                    [] v = "job_failed" -> "raised"
                                    [] OTHER -> "sleep"
                        /\ werr' = IF v = "job_failed" THEN "RuntimeError" ELSE werr
    /\ UNCHANGED <<wjob, wstart, wtimeout>>
    /\ UNCHANGED <<clusterVars, tree, target, cmd, pathVars, opVars, listVars>>

\* line 290: time.sleep(2)
WaitSleep ==
    /\ wpc = "sleep"
    /\ \E oversleep \in 0..MaxLatency : now' = now + SleepTime(oversleep)
    /\ wpc' = "check"
    /\ UNCHANGED <<wjob, wstart, wtimeout, werr, npolls, sawActive, sawFailed, sawFailedOnly>>
    /\ UNCHANGED <<clusterVars, tree, target, cmd, pathVars, opVars, listVars>>

WaitStep == WaitCheck \/ WaitRead \/ WaitSleep

\* ------------------------------------------------ 'experiment run --wait'
\* line 265: timeout: int = 600
DefaultTimeout == 600

\* a client that an operation made, and the context it talks to
Client(op, context) == [op |-> op, context |-> context]

\* mutant: a failed submission is waited for all the same
WaitsAfterAnySubmit(raised) == TRUE

\* experiment.py lines 313-334: wait_for_job is reached when submit_training_job
\* returned
WaitsAfter(raised) == ~raised

\* experiment.py lines 222-334 and k8s.py lines 273-275, 'experiment run
\* --wait': the checks, the submission, and the entry into wait_for_job
experiment_run_wait ==
    /\ cmd.pc = "start"
    /\ \E name \in CmdNames, env \in {<<>>, << <<"K", "V">> >>}, confirm \in BOOLEAN :
          LET c == RunChecks(name, env, confirm) IN
          IF c # "submit"
             THEN /\ calls' = <<>>
                  /\ outcome' = CmdResult("experiment run", name, env, c = "abort", <<>>)
                  /\ cmd' = [cmd EXCEPT !.pc = IF c = "abort" THEN "aborted" ELSE "cancelled"]
                  /\ UNCHANGED <<configmaps, jobs, bundle, packed, given>>
                  /\ UNCHANGED waitVars
             ELSE \E order \in WalkOrders(tree), f \in FaultPlans(3) :
                     LET r == SubmitTrainingJob(name, DefaultArgs, tree, order, f[1], f[2], f[3])
                         submit == Client("submit_training_job",
                                          get_k8s_client(cmd.configured, cmd.current))
                         wait == Client("wait_for_job", get_k8s_client(None, cmd.current))
                     IN
                     /\ calls' = r.calls
                     /\ outcome' = CmdResult("experiment run", name, env, r.raised, r.ret)
                     /\ configmaps' = r.configmaps
                     /\ jobs' = r.jobs
                     /\ bundle' = r.bundle
                     /\ packed' = [tree |-> tree, order |-> order]
                     /\ given' = DefaultArgs
                     /\ IF WaitsAfter(r.raised)
                           THEN /\ cmd' = [cmd EXCEPT !.pc = "wait", !.log = <<submit, wait>>]
                                /\ wpc' = "check" /\ wjob' = r.ret /\ wstart' = now
                                /\ wtimeout' = DefaultTimeout /\ werr' = None /\ npolls' = 0
                                /\ sawActive' = FALSE /\ sawFailed' = FALSE
                                /\ sawFailedOnly' = FALSE
                           ELSE /\ cmd' = [cmd EXCEPT !.pc = "aborted", !.log = <<submit>>]
                                /\ UNCHANGED waitVars
    /\ UNCHANGED prev
    /\ UNCHANGED <<deployments, services, now, tree, target>>
    /\ UNCHANGED <<pathVars, listVars>>

\* k8s.py lines 305-333: how stream_job_logs ends
StreamResults == {"streamed", "no pods", "list rejected", "log rejected"}

\* experiment.py lines 334-341: when wait_for_job returned, stream_job_logs
\* is called and the command ends with it; an exception of either ends in
\* click.Abort
experiment_run_finish ==
    /\ cmd.pc = "wait" /\ WaitDone
    /\ IF wpc = "returned"
          THEN \E res \in StreamResults :
                  cmd' = [cmd EXCEPT
                            !.pc = IF res \in {"streamed", "no pods"} THEN "done" ELSE "aborted",
                            !.log = Append(cmd.log, Client("stream_job_logs",
                                                           get_k8s_client(None, cmd.current)))]
          ELSE cmd' = [cmd EXCEPT !.pc = "aborted"]
    /\ UNCHANGED <<clusterVars, now, tree, target>>
    /\ UNCHANGED <<pathVars, opVars, waitVars, listVars>>

\* the job controller reports on the job that the command waits for
ControllerStep == cmd.pc = "wait" /\ ~WaitDone /\ JobStatusUpdate

Contexts == {"kind-mlp", "prod"}

InitRunWait ==
    /\ PathIdle /\ WaitIdle
    /\ bundle = NoBundle /\ packed = NoWalk /\ given = NoArgs
    /\ calls = <<>> /\ outcome = NoCall /\ prev = NoCall
    /\ listing = {} /\ target = NoDir
    /\ \E current \in Contexts :
          cmd = [pc |-> "start", configured |-> "kind-mlp", current |-> current, log |-> <<>>]
    /\ configmaps = {} /\ jobs = {} /\ deployments = {} /\ services = {}
    /\ tree \in {t \in SubmitTrees : Cardinality(DOMAIN t) = 1}
    /\ now = 0

NextRunWait ==
    \/ experiment_run_wait
    \/ WaitCheck \/ WaitRead \/ WaitSleep
    \/ ControllerStep
    \/ experiment_run_finish

SpecRunWait == InitRunWait /\ [][NextRunWait]_vars

\* the operations whose clients the command made, in order
Entered == [i \in 1..Len(cmd.log) |-> cmd.log[i].op]

\* C26: every orchestrator call of one command invocation goes to the cluster
\* context of the loaded configuration: the clients of wait_for_job and
\* stream_job_logs talk to the same context as the client of
\* submit_training_job, which is config.kubernetes.context.
C26_OneContextPerInvocation ==
    \A i \in 1..Len(cmd.log) : cmd.log[i].context = cmd.configured

\* C30: in 'experiment run --wait' the steps run in the order submit, wait,
\* stream: wait_for_job is entered only when submit_training_job returned a
\* job name, and for that job; stream_job_logs only when wait_for_job
\* returned; when wait_for_job raises, the command is aborted, no delete is
\* issued, and the submitted Job and its ConfigMap stay in the cluster.
C30_SubmitWaitStream ==
    /\ [](\E n \in 0..3 :
             Entered = SubSeq(<<"submit_training_job", "wait_for_job", "stream_job_logs">>, 1, n))
    /\ [](Len(cmd.log) >= 2 =>
             /\ ~outcome.raised /\ outcome.ret # <<>> /\ wjob = outcome.ret
             /\ \E i \in 1..Len(calls) :
                   calls[i].verb = "create" /\ calls[i].kind = "job"
                   /\ calls[i].name = wjob /\ Ok(calls[i].status))
    /\ [](Len(cmd.log) = 3 => wpc = "returned")
    /\ []((cmd.pc \in {"done", "aborted"} /\ wpc = "returned") => Len(cmd.log) = 3)
    /\ []((cmd.pc \notin {"idle", "start"} /\ wpc = "raised") =>
             /\ Len(cmd.log) = 2
             /\ \A i \in 1..Len(calls) : calls[i].verb # "delete"
             /\ Named(jobs, wjob) # {}
             /\ Named(configmaps, wjob \o <<"code">>) # {})
    /\ [][(cmd.pc = "wait" /\ WaitDone /\ wpc = "raised") =>
             (cmd'.pc = "aborted" /\ calls' = calls /\ clusterVars' = clusterVars)]_vars

\* the wait timed out; the command was aborted and left the Job and its
\* ConfigMap
C30_Witness ==
    /\ cmd.pc = "aborted" /\ wpc = "raised" /\ werr = "TimeoutError"
    /\ Len(cmd.log) = 2
    /\ Named(jobs, wjob) # {} /\ Named(configmaps, wjob \o <<"code">>) # {}

\* wait_for_job(job_name, namespace, timeout) is entered: line 275
InitWait ==
    /\ PathIdle /\ OpIdle
    /\ configmaps = {} /\ deployments = {} /\ services = {} /\ tree = <<>>
    /\ now = 0
    /\ jobs = {JobObject(<<"exp", 0>>, 0, <<"exp", 0, "code">>, DefaultArgs)}
    /\ wpc = "check" /\ wjob = <<"exp", 0>> /\ wstart = now /\ wtimeout \in TimeoutVals
    /\ werr = None /\ npolls = 0
    /\ sawActive = FALSE /\ sawFailed = FALSE /\ sawFailedOnly = FALSE

NextWait == WaitCheck \/ WaitRead \/ WaitSleep \/ (~WaitDone /\ JobStatusUpdate)

SpecWait == InitWait /\ [][NextWait]_vars

\* the interpreter keeps running the call until it returns or raises
SpecWaitFair == SpecWait /\ WF_vars(WaitStep)

\* C1 as stated: a poll that observes failed > 0 makes wait_for_job raise the
\* job-failed error, also when the same poll observes active > 0.
C1_FailedPollRaisesJobFailed ==
    sawFailed => (wpc = "raised" /\ werr = "RuntimeError")

\* C1 (amended): a poll that observes failed > 0 without active > 0 makes
\* wait_for_job raise RuntimeError; a poll that observes failed > 0 together
\* with active > 0 makes it return normally; in neither case TimeoutError.
C1_FailedPollEndsWait ==
    /\ sawFailedOnly => (wpc = "raised" /\ werr = "RuntimeError")
    /\ (sawFailed /\ ~sawFailedOnly) => (wpc = "returned" /\ werr = None)
    /\ sawFailed => werr # "TimeoutError"

C1_Witness ==
    /\ sawFailedOnly /\ npolls >= 2 /\ wpc = "raised" /\ werr = "RuntimeError"

\* C7: wait_for_job with a finite timeout terminates: it returns or raises
\* after finitely many polls.
C7_WaitTerminates ==
    <>(WaitDone /\ (wpc = "raised" =>
                       werr \in {"RuntimeError", "TimeoutError", "ApiException"}))

\* C8: a normal return only after a poll saw active > 0; the job-failed error
\* only after a poll saw failed > 0 without active > 0; TimeoutError only if
\* no poll saw active > 0 or failed > 0; the two errors differ in kind.
C8_OutcomeCauses ==
    /\ wpc = "returned" => (sawActive /\ werr = None)
    /\ (wpc = "raised" /\ werr = "RuntimeError") => (sawFailedOnly /\ ~sawActive)
    /\ (wpc = "raised" /\ werr = "TimeoutError") =>
          (~sawActive /\ ~sawFailed /\ now - wstart >= wtimeout)
    /\ wpc = "raised" => werr \in {"RuntimeError", "TimeoutError", "ApiException"}

C8_Witness ==
    wpc = "raised" /\ werr = "TimeoutError" /\ npolls >= 2

C7_Witness ==
    wpc = "raised" /\ werr = "TimeoutError" /\ npolls >= 2 /\ now - wstart > wtimeout

\* C29: wait_for_job reads the job status only when the elapsed time was below
\* the timeout at the loop test before the read: with timeout <= 0 it raises
\* TimeoutError without one read; once the elapsed time has reached the
\* timeout it raises TimeoutError without another read, whatever the job has
\* become during the sleep after the last read.
C29_NoReadAfterTimeout ==
    /\ [](wtimeout <= 0 => npolls = 0)
    /\ []((wtimeout <= 0 /\ WaitDone) => (wpc = "raised" /\ werr = "TimeoutError"))
    /\ [][(wpc # "read" /\ wpc' = "read") =>
             (wpc = "check" /\ now - wstart < wtimeout)]_vars
    /\ [][npolls' # npolls => wpc = "read"]_vars
    /\ [][(wpc = "check" /\ now - wstart >= wtimeout /\ wpc' # wpc) =>
             /\ wpc' = "raised" /\ werr' = "TimeoutError"
             /\ npolls' = npolls
             /\ sawActive' = sawActive /\ sawFailed' = sawFailed]_vars

\* the job became active after the last read and the wait timed out
C29_Witness ==
    /\ wpc = "raised" /\ werr = "TimeoutError" /\ wtimeout > 0
    /\ npolls >= 1 /\ ~sawActive /\ ~sawFailed
    /\ \E j \in Named(jobs, wjob) : Pos(j.active) \/ Pos(j.failed)

\* ----------------------------------------------------- packaging a directory
CodeName == <<"exp", 0, "code">>

\* a ConfigMap left by an earlier submission under the same name
StaleConfigMap == [name |-> CodeName, data |-> Walk([p \in {<<"train", ".py">>} |-> <<97>>], <<<<"train", ".py">>>>).data]

InitPkg ==
    /\ PathIdle /\ WaitIdle /\ OpIdle
    /\ tree \in Trees(MaxFiles)
    /\ configmaps \in {{}, {StaleConfigMap}}
    /\ jobs = {} /\ deployments = {} /\ services = {}
    /\ now = 0

PackageDir == create_configmap_from_path(CodeName)

NextPkg == PackageDir

SpecPkg == InitPkg /\ [][NextPkg]_vars

Packaged == outcome.op = "create_configmap_from_path"

KeyCollision(t) ==
    \E p \in Included(t), q \in Included(t) : p # q /\ EncodeKey(p) = EncodeKey(q)

\* C5: when two distinct included files encode to the same bundle key, the
\* packager flags the collision: it does not return normally with a Bundle
\* that keeps one of the two contents under the shared key.
C5_CollisionFlagged ==
    (Packaged /\ KeyCollision(tree)) =>
        ~(~outcome.raised /\ Cardinality(DOMAIN bundle.data) < Cardinality(Included(tree)))

\* C6: every key of the Bundle matches [-._a-zA-Z0-9]+.
C6_KeysMatchPattern ==
    Packaged =>
        \A k \in DOMAIN bundle.data : k # <<>> /\ \A i \in 1..Len(k) : KeySafe(k[i])

RECURSIVE ContentLengths(_, _)
\* the sum of the lengths of the values that data holds under the keys ks
ContentLengths(data, ks) ==
    IF ks = {} THEN 0
    ELSE LET k == CHOOSE x \in ks : TRUE
         IN Len(data[k]) + ContentLengths(data, ks \ {k})

\* C12: the cumulative size create_configmap_from_path computes equals the sum
\* of the lengths of the encoded contents of the entries of the Bundle it
\* submits, for every directory tree, also when two files share a key.
C12_SizeIsSumOfEntries ==
    Packaged => bundle.total_size = ContentLengths(bundle.data, DOMAIN bundle.data)

\* the exclusion rule in the words of the specification: a segment of the
\* relative path equals an entry of the exclusion list, or the file name ends
\* with one of the suffixes
ExcludedNames == {
    <<"mlruns">>, <<"models">>, <<".git">>, <<"_", "_", "pycache", "_", "_">>,
    <<".ipynb_checkpoints">>, <<"data">>, <<"notebooks">>, <<".dvc">>,
    <<".pytest_cache">>, <<".venv">>, <<"venv">>, <<".DS_Store">>,
    <<"*", ".pyc">>, <<"*", ".pyo">>, <<"*", ".pyd">>, <<"*", ".egg-info">> }

ExcludedSuffixes == {<<".pyc">>, <<".pyo">>, <<".pyd">>, <<".egg-info">>}

MatchesRule(p) ==
    \/ \E i \in 1..Len(Parts(p)) : Parts(p)[i] \in ExcludedNames
    \/ \E x \in ExcludedSuffixes : EndsWith(FileName(p), x)

\* the value of a base64 digit
B64Value(c) ==
    IF c >= 65 /\ c <= 90 THEN c - 65
    ELSE IF c >= 97 /\ c <= 122 THEN c - 71
    ELSE IF c >= 48 /\ c <= 57 THEN c + 4
    ELSE IF c = 43 THEN 62 ELSE 63

RECURSIVE B64Decode(_)
\* the bytes a padded base64 string stands for
B64Decode(s) ==
    IF Len(s) < 4 THEN <<>>
    ELSE LET pad == (IF s[3] = 61 THEN 1 ELSE 0) + (IF s[4] = 61 THEN 1 ELSE 0)
             v1 == B64Value(s[1])
             v2 == B64Value(s[2])
             v3 == IF s[3] = 61 THEN 0 ELSE B64Value(s[3])
             v4 == IF s[4] = 61 THEN 0 ELSE B64Value(s[4])
             b1 == v1 * 4 + (v2 \div 16)
             b2 == (v2 % 16) * 16 + (v3 \div 4)
             b3 == (v3 % 4) * 64 + v4
         IN SubSeq(<<b1, b2, b3>>, 1, 3 - pad) \o B64Decode(SubSeq(s, 5, Len(s)))

\* a string of base64 digits, padded to a multiple of four
IsBase64(s) ==
    /\ Len(s) % 4 = 0
    /\ \A i \in 1..Len(s) :
          \/ s[i] \in (65..90) \cup (97..122) \cup (48..57) \cup {43, 47}
          \/ s[i] = 61 /\ i >= Len(s) - 1

\* one file of the directory decodes as text, the other does not, and
\* neither matches an exclusion rule
OneTextOneBinary(t) ==
    /\ Cardinality(DOMAIN t) = 2
    /\ \A p \in DOMAIN t : ~MatchesRule(p)
    /\ \E p \in DOMAIN t, q \in DOMAIN t : Decodable(t[p]) /\ ~Decodable(t[q])

\* C16: the Bundle value of every included file is the file's text when the
\* file decodes as text, and otherwise base64 that decodes back to the file's
\* bytes; a directory of one text file and one non-decodable file gives a
\* Bundle with exactly two keys.
C16_ContentEncoding ==
    Packaged =>
        /\ \A p \in DOMAIN tree : ~MatchesRule(p) =>
              /\ EncodeKey(p) \in DOMAIN bundle.data
              /\ LET v == bundle.data[EncodeKey(p)] IN
                 IF Decodable(tree[p]) THEN v = ReadText(tree[p])
                 ELSE IsBase64(v) /\ B64Decode(v) = tree[p]
        /\ OneTextOneBinary(tree) => Cardinality(DOMAIN bundle.data) = 2

\* a directory whose file names survive the key encoding: no two included
\* files share a key and no name holds a literal "__"
PlainNames(t) ==
    /\ ~KeyCollision(t)
    /\ \A p \in DOMAIN t : ~Contains(p, <<"_", "_">>)

\* C24: the unpacking step of the job entrypoint restores, for every packaged
\* file, text or binary, a file below /work whose bytes equal the bytes of
\* the original file (the Bundle tells it which values are base64).
C24_UnpackRestoresBytes ==
    (Packaged /\ PlainNames(tree)) =>
        \A p \in DOMAIN tree : ~MatchesRule(p) =>
            /\ p \in DOMAIN Unpack(bundle.data)
            /\ Unpack(bundle.data)[p] = tree[p]

\* ------------------------------------------- packaging a directory again
\* the files of a directory that grows: two that share a key, one more that
\* is packaged, one that an exclusion rule matches
GrowPaths == {
    <<"a", "/", "b">>, <<"a", "_", "_", "b">>, <<"a", " ", "b">>, <<"b", ".pyc">> }

\* the user adds one file to the experiment directory that was packaged
AddFile ==
    /\ outcome.op = "create_configmap_from_path" /\ packed.tree = tree
    /\ Cardinality(DOMAIN tree) < MaxFiles
    /\ \E p \in GrowPaths \ DOMAIN tree, bytes \in SampleBytes :
          LET t == [q \in DOMAIN tree \cup {p} |-> IF q = p THEN bytes ELSE tree[q]] IN
          /\ IsTree(t)
          /\ tree' = t
    /\ UNCHANGED <<clusterVars, now, target, cmd, pathVars, opVars, waitVars, listVars>>

InitGrow ==
    /\ PathIdle /\ WaitIdle /\ OpIdle
    /\ tree \in TreesOf(GrowPaths, SampleBytes, MaxFiles - 1)
    /\ configmaps = {}
    /\ jobs = {} /\ deployments = {} /\ services = {}
    /\ now = 0

NextGrow == PackageDir \/ AddFile

SpecGrow == InitGrow /\ [][NextGrow]_vars

\* directory t1 is directory t0 with the one file p added
Grown(t0, t1, p) ==
    /\ p \notin DOMAIN t0
    /\ DOMAIN t1 = DOMAIN t0 \cup {p}
    /\ \A q \in DOMAIN t0 : t1[q] = t0[q]

\* C13 as stated: packaging again after one file matching an exclusion rule
\* was added computes the same cumulative size, and after one file matching no
\* rule was added a strictly larger one, an empty file included.
C13_AddedFileGrowsSize ==
    [][\A p \in GrowPaths :
          (Packaged /\ Grown(packed.tree, packed'.tree, p)) =>
              IF MatchesRule(p)
                 THEN bundle'.total_size = bundle.total_size
                 ELSE bundle'.total_size > bundle.total_size]_vars

\* C13 (amended): an added file matching an exclusion rule leaves the size
\* unchanged; an added file matching no rule increases it by the length of
\* its encoded content, so strictly when that content is not empty and not at
\* all when the file is empty.
C13_AddedFileAddsItsLength ==
    [][\A p \in GrowPaths :
          (Packaged /\ Grown(packed.tree, packed'.tree, p)) =>
              LET n == Len(EncodedContent(packed'.tree[p])) IN
              /\ MatchesRule(p) => bundle'.total_size = bundle.total_size
              /\ ~MatchesRule(p) => bundle'.total_size = bundle.total_size + n
              /\ (~MatchesRule(p) /\ packed'.tree[p] # <<>>) =>
                    bundle'.total_size > bundle.total_size
              /\ (~MatchesRule(p) /\ packed'.tree[p] = <<>>) =>
                    bundle'.total_size = bundle.total_size]_vars

\* the directory held an excluded file only when it was packaged first; the
\* empty file 'a b' was added; the second call walked both and was rejected
C13_Witness ==
    /\ Packaged /\ outcome.raised /\ packed.tree = tree
    /\ DOMAIN tree = {<<"a", " ", "b">>, <<"b", ".pyc">>}
    /\ tree[<<"a", " ", "b">>] = <<>>
    /\ DOMAIN bundle.data = {<<"a", " ", "b">>} /\ bundle.total_size = 0
    /\ \E c \in configmaps : c.name = CodeName /\ c.data = <<>>

RulePaths == {
    <<"train", ".py">>,
    <<"data">>,
    <<"data", "/", "b">>,
    <<"a", "/", "data", "/", "b">>,
    <<"my", "data", "/", "b">>,
    <<"data", "2">>,
    <<"b", ".pyc">>,
    <<".pyc">>,
    <<"*", ".pyc">>,
    <<"b", ".pyc", "x">>,
    <<"c", ".pyc", "/", "b">>,
    <<"a", ".egg-info", "/", "b">>,
    <<"_", "_", "pycache", "_", "_", "/", "b">> }

InitRules ==
    /\ PathIdle /\ WaitIdle /\ OpIdle
    /\ tree \in TreesOf(RulePaths, {<<97>>}, MaxFiles)
    /\ configmaps = {}
    /\ jobs = {} /\ deployments = {} /\ services = {}
    /\ now = 0

NextRules == PackageDir

SpecRules == InitRules /\ [][NextRules]_vars

\* the files the last call kept
Kept == {packed.order[i] : i \in 1..Len(packed.order)}

\* C14: a file is left out of the Bundle if and only if a segment of its
\* relative path equals an entry of the exclusion list or its file name ends
\* with .pyc, .pyo, .pyd or .egg-info; every other file of the directory is
\* packaged, and the Bundle has the keys of the packaged files and no other.
C14_ExclusionRule ==
    Packaged =>
        /\ \A p \in DOMAIN tree : (p \notin Kept) <=> MatchesRule(p)
        /\ DOMAIN bundle.data = {EncodeKey(p) : p \in {q \in DOMAIN tree : ~MatchesRule(q)}}

C14_Witness ==
    /\ Packaged
    /\ DOMAIN tree = {<<"a", ".egg-info", "/", "b">>, <<"a", "/", "data", "/", "b">>}
    /\ DOMAIN bundle.data = {<<"a", ".egg-info", "_", "_", "b">>}

\* ------------------------------------------------------- model deployments
InitDeploy ==
    /\ PathIdle /\ WaitIdle /\ OpIdle
    /\ configmaps = {} /\ jobs = {} /\ deployments = {} /\ services = {}
    /\ tree = <<>>
    /\ now = 0

NextDeploy ==
    \/ \E m \in ModelNames : deploy_model(m)
    \/ \E m \in ModelNames : delete_model_deployment(m)

SpecDeploy == InitDeploy /\ [][NextDeploy]_vars

DeployedOk(o) == o.op = "deploy_model" /\ ~o.raised

\* the last two calls were deploy_model of one model with different replica
\* counts, and both returned
DeployedTwice ==
    /\ DeployedOk(prev) /\ DeployedOk(outcome)
    /\ prev.name = outcome.name /\ prev.arg # outcome.arg

\* C3: two deploy_model calls for one model name with different replica
\* counts, both returning, leave exactly one Deployment and one Service of
\* that name, and the Deployment has the second call's replica count.
C3_UpsertConvergence ==
    DeployedTwice =>
        /\ Cardinality(Named(deployments, outcome.name)) = 1
        /\ Cardinality(Named(services, outcome.name)) = 1
        /\ \A d \in Named(deployments, outcome.name) : d.replicas = outcome.arg

C3_Witness ==
    /\ DeployedTwice
    /\ \E i \in 1..Len(calls) : calls[i].verb = "replace" /\ calls[i].kind = "deployment"

\* every model name has a Service exactly when it has a Deployment
Paired(ds, ss) ==
    \A m \in ModelNames : (Named(ss, m) # {}) <=> (Named(ds, m) # {})

\* C11: after any sequence of deploy_model and delete_model_deployment calls
\* that all returned without raising, a Service named m exists if and only if
\* a Deployment named m exists. Stated as the step that keeps it: a call that
\* finds the two kinds paired and returns without raising leaves them paired
\* (the namespace starts empty, and what a call does depends on the stored
\* objects only).
C11_NoOrphanAfterSuccess ==
    [][(Paired(deployments, services) /\ calls' # <<>> /\ ~outcome'.raised)
          => Paired(deployments', services')]_vars

\* the requests of a call on objects of one kind
OfKind(cs, kind) == {i \in 1..Len(cs) : cs[i].kind = kind}

\* C25: when the Service upsert inside deploy_model fails with an error that
\* is raised, the Deployment that the same call created or replaced stays
\* applied with the new spec: no request takes it back, the Services are as
\* they were, and the one rejected request that ends the call is the one on
\* the Service.
C25_NoRollbackOfDeployment ==
    [][(outcome'.op = "deploy_model" /\ outcome'.raised /\ OfKind(calls', "service") # {})
          => /\ Named(deployments', outcome'.name) =
                   {[name |-> outcome'.name, replicas |-> outcome'.arg,
                     labels |-> {<<"type", "model-server">>},
                     created |-> now, ready_replicas |-> <<>>]}
             /\ \A d \in deployments : d.name # outcome'.name => d \in deployments'
             /\ services' = services
             /\ \A i \in 1..Len(calls') : calls'[i].verb \in {"create", "replace"}
             /\ \A i \in OfKind(calls', "deployment") :
                   Ok(calls'[i].status) \/ calls'[i].status = 409
             /\ Ok(calls'[CHOOSE i \in OfKind(calls', "deployment") :
                             \A k \in OfKind(calls', "deployment") : k <= i].status)
             /\ calls'[Len(calls')].kind = "service"
             /\ ~Ok(calls'[Len(calls')].status)]_vars

\* the Deployment of m2 was replaced with another replica count while the
\* create of its Service was rejected; m2 had no Service
C25_Witness ==
    /\ outcome.op = "deploy_model" /\ outcome.raised /\ outcome.name = "m2"
    /\ Len(calls) = 3
    /\ calls[2].verb = "replace" /\ calls[2].kind = "deployment" /\ Ok(calls[2].status)
    /\ calls[3].verb = "create" /\ calls[3].kind = "service" /\ calls[3].status = 403
    /\ \E d \in deployments : d.name = "m2" /\ d.replicas = outcome.arg
    /\ Named(services, "m2") = {}

\* ------------------------------------------------------------ training jobs
JobNames == {"exp"}

InitJobs ==
    /\ PathIdle /\ WaitIdle /\ OpIdle
    /\ configmaps = {} /\ jobs = {} /\ deployments = {} /\ services = {}
    /\ tree \in SubmitTrees
    /\ now = 0

NextJobs ==
    \/ \E n \in JobNames : submit_training_job(n, DefaultArgs)
    \/ \E n \in JobNames, t \in 0..MaxClock : delete_job(<<n, t>>)
    \/ Tick
    \/ EditTree

SpecJobs == InitJobs /\ [][NextJobs]_vars

\* the Job create of the last call was rejected with a name collision
JobCollision(cs) ==
    \E i \in 1..Len(cs) : cs[i].verb = "create" /\ cs[i].kind = "job" /\ cs[i].status = 409

\* C9: when a Job of the generated name exists, submit_training_job raises:
\* the rejected create is its last request, it issues no replace and no second
\* create, the Jobs stay as they were, and no job name is returned.
C9_CollisionSurfaces ==
    [][(calls' # calls /\ JobCollision(calls')) =>
          /\ outcome'.op = "submit_training_job"
          /\ outcome'.raised /\ outcome'.ret = <<>>
          /\ jobs' = jobs
          /\ calls'[Len(calls')] = Request("create", "job", <<outcome'.name, outcome'.arg>>, 409)
          /\ Cardinality({i \in 1..Len(calls') : calls'[i].kind = "job"}) = 1]_vars

C9_Witness ==
    /\ outcome.op = "submit_training_job" /\ JobCollision(calls)
    /\ Named(jobs, <<outcome.name, outcome.arg>>) # {}

\* the step is a call of submit_training_job
SubmitStep == outcome'.op = "submit_training_job" /\ now' = now /\ tree' = tree

\* C27: in submit_training_job the ConfigMap upsert completes before the Job
\* create is issued; if the upsert raises, no Job create is issued; the Job
\* that is created mounts exactly the ConfigMap '<job_name>-code' that the
\* same call upserted, job_name being the name the call returns.
C27_BundleBeforeJob ==
    [][SubmitStep =>
          LET job_name == <<outcome'.name, now>>
              cms == OfKind(calls', "configmap")
              js == OfKind(calls', "job")
          IN /\ cms # {}
             /\ \A i \in cms : calls'[i].name = job_name \o <<"code">>
             /\ \A i \in cms, k \in js : i < k
             /\ js # {} => \E i \in cms : Ok(calls'[i].status) /\ \A k \in cms : k <= i
             /\ (\E i \in cms : ~Ok(calls'[i].status) /\ \A k \in cms : k <= i) =>
                   (js = {} /\ outcome'.raised /\ jobs' = jobs)
             /\ ~outcome'.raised =>
                   /\ outcome'.ret = job_name
                   /\ Named(jobs, job_name) = {}
                   /\ Cardinality(Named(jobs', job_name)) = 1
                   /\ \A j \in Named(jobs', job_name) :
                         /\ j.configmap = outcome'.ret \o <<"code">>
                         /\ Named(configmaps', j.configmap) =
                               {[name |-> j.configmap, data |-> bundle'.data]}
                         /\ bundle'.data = Walk(tree, packed'.order).data]_vars

\* the second submission of the second returned after replacing the ConfigMap
\* that a deleted Job of the same name had left
C27_Witness ==
    /\ outcome.op = "submit_training_job" /\ ~outcome.raised
    /\ Len(calls) = 3 /\ calls[1].status = 409
    /\ calls[2].verb = "replace" /\ calls[3].kind = "job" /\ calls[3].status = 201
    /\ \E j \in Named(jobs, outcome.ret) :
          Named(configmaps, j.configmap) = {[name |-> j.configmap, data |-> bundle.data]}

\* C28: when the Job create of submit_training_job fails, the ConfigMap
\* upserted earlier in the same call stays in the namespace, no delete is
\* issued; in the same-second name collision the ConfigMap '<job_name>-code'
\* of the existing Job holds the second submission's contents when the
\* collision error is raised, and the existing Job is unchanged.
C28_BundleStaysAfterFailedCreate ==
    [][(SubmitStep /\ \E i \in OfKind(calls', "job") : ~Ok(calls'[i].status)) =>
          LET job_name == <<outcome'.name, now>>
              configmap_name == job_name \o <<"code">>
          IN /\ outcome'.raised
             /\ \A i \in 1..Len(calls') : calls'[i].verb # "delete"
             /\ Named(configmaps', configmap_name) =
                   {[name |-> configmap_name, data |-> Walk(tree, packed'.order).data]}
             /\ jobs' = jobs
             /\ JobCollision(calls') =>
                   /\ Named(jobs, job_name) # {}
                   /\ \A j \in Named(jobs, job_name) : j.configmap = configmap_name]_vars

\* the directory was edited to two files after the first submission; the
\* second, in the same second, replaced the ConfigMap and was rejected
C28_Witness ==
    /\ outcome.op = "submit_training_job" /\ outcome.raised /\ JobCollision(calls)
    /\ Len(calls) = 3 /\ calls[2].verb = "replace" /\ Ok(calls[2].status)
    /\ Cardinality(DOMAIN tree) = 2 /\ packed.tree = tree
    /\ \E j \in Named(jobs, <<outcome.name, outcome.arg>>) :
          /\ j.created = now
          /\ Named(configmaps, j.configmap) =
                {[name |-> j.configmap, data |-> Walk(tree, packed.order).data]}

\* ------------------------------------------------- resources of a job
\* the --cpu, --memory and --gpu values of a submission
ResourceArgs ==
    [cpu : {<<"1">>, <<"500", "m">>}, memory : {<<"2", "Gi">>}, gpu : {-1, 0, 1, 10}]

InitResources ==
    /\ PathIdle /\ WaitIdle /\ OpIdle
    /\ configmaps = {} /\ jobs = {} /\ deployments = {} /\ services = {}
    /\ tree \in SubmitTrees
    /\ now = 0

NextResources ==
    \E n \in JobNames, args \in ResourceArgs : submit_training_job(n, args)

SpecResources == InitResources /\ [][NextResources]_vars

Gpu == "nvidia.com/gpu"

\* C22: every Job that submit_training_job built has CPU and memory requests
\* equal to its CPU and memory limits, namely the cpu and memory it was given;
\* nvidia.com/gpu is in the requests and in the limits, with the gpu count as
\* value in both, exactly when the gpu count is > 0, and in neither otherwise.
C22_RequestsEqualLimits ==
    /\ \A j \in jobs :
          LET rq == j.resources.requests
              lm == j.resources.limits
          IN /\ rq["cpu"] = lm["cpu"] /\ rq["memory"] = lm["memory"]
             /\ (Gpu \in DOMAIN rq) <=> (Gpu \in DOMAIN lm)
             /\ (Gpu \in DOMAIN rq) => rq[Gpu] = lm[Gpu]
             /\ DOMAIN rq \subseteq {"cpu", "memory", Gpu}
             /\ DOMAIN lm \subseteq {"cpu", "memory", Gpu}
    /\ (outcome.op = "submit_training_job" /\ ~outcome.raised) =>
          \A j \in Named(jobs, outcome.ret) :
             LET rq == j.resources.requests
                 lm == j.resources.limits
             IN /\ rq["cpu"] = given.cpu /\ rq["memory"] = given.memory
                /\ (Gpu \in DOMAIN rq) <=> given.gpu > 0
                /\ (Gpu \in DOMAIN lm) <=> given.gpu > 0
                /\ given.gpu > 0 => (rq[Gpu] = Str(given.gpu) /\ lm[Gpu] = Str(given.gpu))

C22_Witness ==
    /\ outcome.op = "submit_training_job" /\ ~outcome.raised /\ given.gpu = 10
    /\ \E j \in Named(jobs, outcome.ret) :
          /\ j.resources.requests[Gpu] = <<"1", "0">>
          /\ j.resources.limits[Gpu] = <<"1", "0">>
          /\ j.resources.limits["cpu"] = <<"500", "m">>

\* ------------------------------------------------------------ deleting jobs
\* the Jobs and code ConfigMaps that earlier submissions and deletions, of
\* this client or another, left in the namespace
LeftJobs == {JobObject(<<n, t>>, t, <<n, t, "code">>, DefaultArgs) : n \in JobNames, t \in 0..MaxClock}

LeftConfigMaps ==
    {[name |-> <<n, t, "code">>, data |-> StaleConfigMap.data] : n \in JobNames, t \in 0..MaxClock}

InitDelete ==
    /\ PathIdle /\ WaitIdle /\ OpIdle
    /\ jobs \in SUBSET LeftJobs
    /\ configmaps \in SUBSET LeftConfigMaps
    /\ deployments = {} /\ services = {}
    /\ tree \in SubmitTrees
    /\ now = 0

NextDelete == \E n \in JobNames, t \in 0..MaxClock : delete_job(<<n, t>>)

SpecDelete == InitDelete /\ [][NextDelete]_vars

\* C21: delete_job deletes the Job and then attempts to delete the ConfigMap
\* '<job_name>-code'; a failure of that second delete, the ConfigMap being
\* absent included, is not an error: delete_job returns normally and the Job
\* is gone. A failure of the Job delete is raised, and then no ConfigMap
\* delete is attempted and nothing is deleted.
C21_DeleteJobThenBundle ==
    [][outcome'.op = "delete_job" =>
          LET job_name == outcome'.name
              configmap_name == job_name \o <<"code">>
          IN /\ calls' # <<>>
             /\ calls'[1].verb = "delete" /\ calls'[1].kind = "job"
             /\ calls'[1].name = job_name
             /\ ~Ok(calls'[1].status) =>
                   /\ outcome'.raised /\ Len(calls') = 1
                   /\ jobs' = jobs /\ configmaps' = configmaps
             /\ Ok(calls'[1].status) =>
                   /\ ~outcome'.raised /\ Len(calls') = 2
                   /\ calls'[2].verb = "delete" /\ calls'[2].kind = "configmap"
                   /\ calls'[2].name = configmap_name
                   /\ jobs' = jobs \ Named(jobs, job_name)
                   /\ Named(configmaps, configmap_name) = {} =>
                         (~Ok(calls'[2].status) /\ configmaps' = configmaps)
                   /\ ~Ok(calls'[2].status) => configmaps' = configmaps
                   /\ Ok(calls'[2].status) =>
                         configmaps' = configmaps \ Named(configmaps, configmap_name)]_vars

\* a Job whose ConfigMap was absent was deleted, and the call returned
C21_Witness ==
    /\ outcome.op = "delete_job" /\ ~outcome.raised
    /\ Len(calls) = 2 /\ Ok(calls[1].status) /\ calls[2].status = 404
    /\ Named(jobs, outcome.name) = {}

\* --------------------------------------------- listing the submitted jobs
InitSubmitted ==
    /\ PathIdle /\ WaitIdle /\ OpIdle
    /\ configmaps = {} /\ jobs = {} /\ deployments = {} /\ services = {}
    /\ tree \in SubmitTrees
    /\ now = 0

NextSubmitted ==
    \/ \E n \in JobNames : submit_training_job(n, DefaultArgs)
    \/ list_jobs
    \/ Tick

SpecSubmitted == InitSubmitted /\ [][NextSubmitted]_vars

ListedJob(name, a, s, f, marked) ==
    [JobObject(name, 0, name \o <<"code">>, DefaultArgs) EXCEPT
        !.active = a, !.succeeded = s, !.failed = f,
        !.labels = IF marked THEN {<<"app", "ml-training">>} ELSE {}]

JobSets(n) ==
    UNION {
        {{ListedJob(<<"exp", i>>, c[i][1], c[i][2], c[i][3], c[i][4]) : i \in 1..m} :
            c \in [1..m -> CounterVals \X CounterVals \X CounterVals \X BOOLEAN]} :
        m \in 0..n}

InitList ==
    /\ PathIdle /\ WaitIdle /\ OpIdle
    /\ configmaps = {} /\ deployments = {} /\ services = {}
    /\ tree = <<>>
    /\ now = 0
    /\ jobs \in JobSets(MaxJobs)

NextList == list_jobs

SpecList == InitList /\ [][NextList]_vars

Listed == outcome.op = "list_jobs" /\ ~outcome.raised

\* the number a counter stands for, an absent one counting as 0
CountOf(c) == IF c = <<>> THEN 0 ELSE c[1]

\* C2: the status list_jobs derives is Running if active > 0, else Completed
\* if succeeded > 0, else Failed if failed > 0, else Unknown, for every
\* combination of absent or non-negative counters, and it depends on the
\* three counters only.
C2_StatusPrecedence ==
    Listed =>
        /\ \A row \in listing : \A j \in Named(jobs, row.name) :
              row.status =
                 CASE CountOf(j.active) > 0 -> "Running"
                   [] CountOf(j.active) = 0 /\ CountOf(j.succeeded) > 0 -> "Completed"
                   [] CountOf(j.active) = 0 /\ CountOf(j.succeeded) = 0
                         /\ CountOf(j.failed) > 0 -> "Failed"
                   [] OTHER -> "Unknown"
        /\ \A r1 \in listing, r2 \in listing :
              \A j1 \in Named(jobs, r1.name), j2 \in Named(jobs, r2.name) :
                 (CountOf(j1.active) = CountOf(j2.active)
                    /\ CountOf(j1.succeeded) = CountOf(j2.succeeded)
                    /\ CountOf(j1.failed) = CountOf(j2.failed)) => r1.status = r2.status

C2_Witness ==
    /\ Listed /\ outcome.name = <<"all">>
    /\ \E row \in listing : \E j \in Named(jobs, row.name) :
          /\ row.status = "Completed"
          /\ Pos(j.succeeded) /\ Pos(j.failed) /\ j.active = <<0>>

\* ------------------------------------------------------------------- ages
\* the clock at the listing: around the unit boundaries, and before a
\* creation time that a faster clock of the orchestrator stamped
Clocks == {0, 1, 59, 60, 61, 119, 120, 3599, 3600, 3601, 7199,
           86399, 86400, 86401, 172799, 172800}

CreationTimes == {0, 100}

\* a Deployment of the namespace as a listing finds it
ListedDeployment(name, created, ready) ==
    [DeploymentObject(name, 1) EXCEPT !.created = created, !.ready_replicas = ready]

InitAge ==
    /\ PathIdle /\ WaitIdle /\ OpIdle
    /\ configmaps = {} /\ tree = <<>>
    /\ now \in Clocks
    /\ \E c \in CreationTimes :
          jobs \in {{}, {[ListedJob(<<"exp", 0>>, <<1>>, <<>>, <<>>, TRUE) EXCEPT !.created = c]}}
    /\ \E c \in CreationTimes, ready \in CounterVals :
          deployments \in {{}, {ListedDeployment("m1", c, ready)}}
    /\ services \in {{}, {ServiceObject("m1", 8080)}}

NextAge == list_jobs \/ list_model_deployments

SpecAge == InitAge /\ [][NextAge]_vars

ListedAny == outcome.op \in {"list_jobs", "list_model_deployments"} /\ ~outcome.raised

\* the objects a row of the last listing stands for
ListedObjects(row) ==
    IF outcome.op = "list_jobs" THEN Named(jobs, row.name) ELSE Named(deployments, row.name)

\* the string s is the documented age string of an age in whole seconds:
\* the age in the largest unit among s, m, h, d that the breakpoints 60,
\* 3600 and 86400 allow, cut down to a whole number
IsAgeString(age, s) ==
    CASE age < 60 -> s = <<age, "s">>
      [] age >= 60 /\ age < 3600 ->
            s[2] = "m" /\ s[1] * 60 <= age /\ age < (s[1] + 1) * 60
      [] age >= 3600 /\ age < 86400 ->
            s[2] = "h" /\ s[1] * 3600 <= age /\ age < (s[1] + 1) * 3600
      [] OTHER ->
            s[2] = "d" /\ s[1] * 86400 <= age /\ age < (s[1] + 1) * 86400

\* C17: the age string of a listed job or deployment is the age in seconds
\* below 60, in minutes below 3600, in hours below 86400 and in days from
\* there on, truncated; ages 59, 60, 3599, 3600, 86399, 86400 give 59s, 1m,
\* 59m, 1h, 23h, 1d; list_jobs and list_model_deployments give the same
\* string for the same age.
C17_AgeStrings ==
    ListedAny =>
        /\ \A row \in listing : \A o \in ListedObjects(row) :
              /\ IsAgeString(now - o.created, row.age)
              /\ (now - o.created = 59) => row.age = <<59, "s">>
              /\ (now - o.created = 60) => row.age = <<1, "m">>
              /\ (now - o.created = 3599) => row.age = <<59, "m">>
              /\ (now - o.created = 3600) => row.age = <<1, "h">>
              /\ (now - o.created = 86399) => row.age = <<23, "h">>
              /\ (now - o.created = 86400) => row.age = <<1, "d">>
        /\ \A row \in listing : \A o \in ListedObjects(row) :
              AgeString(now - o.created) = DeploymentAgeString(now - o.created)

C17_Witness ==
    /\ outcome.op = "list_model_deployments" /\ ~outcome.raised
    /\ now = 86399
    /\ \E row \in listing : row.age = <<23, "h">> /\ row.available

\* the status of a job by the precedence of the specification
PrecedenceStatus(j) ==
    CASE CountOf(j.active) > 0 -> "Running"
      [] CountOf(j.active) = 0 /\ CountOf(j.succeeded) > 0 -> "Completed"
      [] CountOf(j.active) = 0 /\ CountOf(j.succeeded) = 0 /\ CountOf(j.failed) > 0 -> "Failed"
      [] OTHER -> "Unknown"

\* the status a filter value asks for
FilterStatus(f) ==
    CASE f = "running" -> "Running"
      [] f = "completed" -> "Completed"
      [] f = "failed" -> "Failed"
      [] OTHER -> "any"

\* C19: list_jobs with filter running, completed or failed returns exactly
\* the jobs carrying the marker label whose derived status is Running,
\* Completed or Failed respectively, with filter all every such job; a job
\* of status Unknown is returned under the filter all only.
C19_FilterSelects ==
    Listed =>
        LET f == outcome.name[1] IN
        /\ {row.name : row \in listing} =
              {j.name : j \in {x \in Selected(jobs) :
                                  f = "all" \/ PrecedenceStatus(x) = FilterStatus(f)}}
        /\ \A row \in listing : row.status = "Unknown" => f = "all"
        /\ f = "all" => Cardinality(listing) = Cardinality(Selected(jobs))

C19_Witness ==
    /\ Listed /\ outcome.name = <<"failed">>
    /\ listing = {}
    /\ \E j \in Selected(jobs) : PrecedenceStatus(j) = "Unknown" /\ j.failed = <<0>>

\* ---------------------------------------------------------------- commands
InitCmd ==
    /\ PathIdle /\ WaitIdle /\ OpIdle
    /\ configmaps = {} /\ jobs = {} /\ deployments = {} /\ services = {}
    /\ tree \in SubmitTrees
    /\ now = 0

NextCmd == experiment_run \/ model_deploy

SpecCmd == InitCmd /\ [][NextCmd]_vars

\* the last command was invoked with a name that validate_name rejects or
\* with an --env option without "="
FailsValidation ==
    /\ outcome.op \in {"experiment run", "model deploy"}
    /\ \/ ~validate_name(outcome.name)
       \/ \E i \in 1..Len(outcome.arg) : ~HasEquals(outcome.arg[i])

\* C20: an invocation of 'experiment run' or 'model deploy' that fails
\* validation issues no orchestrator request and is aborted; the cluster is
\* as the command found it.
C20_ValidationBeforeRemoteCalls ==
    /\ [](FailsValidation => (calls = <<>> /\ outcome.raised /\ outcome.err = "Abort"))
    /\ [][FailsValidation' => clusterVars' = clusterVars]_vars

C20_Witness ==
    /\ FailsValidation /\ outcome.op = "model deploy"
    /\ validate_name(outcome.name) /\ Len(outcome.arg) = 2 /\ HasEquals(outcome.arg[1])
    /\ calls = <<>> /\ outcome.raised
    /\ jobs # {} /\ deployments # {} /\ services = {}

\* -------------------------------------------------------------- upserts
InitUpsert ==
    /\ PathIdle /\ WaitIdle /\ OpIdle
    /\ configmaps = {} /\ jobs = {} /\ deployments = {} /\ services = {}
    /\ tree \in SubmitTrees
    /\ now = 0

NextUpsert ==
    \/ create_configmap_from_path(CodeName)
    \/ deploy_model("m1")
    \/ delete_model_deployment("m1")
    \/ EditTree

SpecUpsert == InitUpsert /\ [][NextUpsert]_vars

UpsertKinds == {"configmap", "deployment", "service"}

\* the requests of the last call on objects of one kind, in order
RequestsOn(kind) == SelectSeq(calls, LAMBDA c : c.kind = kind)

Upserting == outcome.op \in {"create_configmap_from_path", "deploy_model"}

\* C10: each of the ConfigMap, Deployment and Service upserts attempts a
\* create; it issues one replace of the same name if and only if the create
\* was rejected with 409; any other rejected create and any rejected replace
\* ends the call with the error: no request follows it.
C10_UpsertPolicy ==
    Upserting =>
        /\ \A kind \in UpsertKinds :
              LET rs == RequestsOn(kind) IN
              rs # <<>> =>
                 /\ rs[1].verb = "create"
                 /\ Len(rs) <= 2
                 /\ Len(rs) = 2 <=> rs[1].status = 409
                 /\ Len(rs) = 2 => (rs[2].verb = "replace" /\ rs[2].name = rs[1].name)
        /\ \A i \in 1..Len(calls) :
              (~Ok(calls[i].status) /\ calls[i].status # 409) =>
                  (i = Len(calls) /\ outcome.raised)
        /\ \A i \in 1..Len(calls) :
              (calls[i].verb = "replace" /\ ~Ok(calls[i].status)) =>
                  (i = Len(calls) /\ outcome.raised)
        /\ outcome.raised => ~Ok(calls[Len(calls)].status)
        /\ calls # <<>> /\ calls[1].verb = "create"

C10_Witness ==
    /\ outcome.op = "deploy_model" /\ outcome.raised
    /\ Len(calls) = 4
    /\ calls[2].verb = "replace" /\ calls[2].kind = "deployment" /\ Ok(calls[2].status)
    /\ calls[4].verb = "replace" /\ calls[4].kind = "service" /\ calls[4].status = 403
    /\ \E c \in configmaps : c.name = CodeName

\* ------------------------------------------------------ scaffolding a project
\* what a user may have left in the target directory
OldEntries == {<<"old_file.txt">>, <<"train.py">>, <<"data", "/", "x.csv">>}

InitScaffold ==
    /\ PathIdle /\ WaitIdle
    /\ bundle = NoBundle /\ packed = NoWalk /\ given = NoArgs
    /\ calls = <<>> /\ outcome = NoCall /\ prev = NoCall
    /\ listing = {}
    /\ cmd = NoCmd
    /\ configmaps = {} /\ jobs = {} /\ deployments = {} /\ services = {}
    /\ tree = <<>>
    /\ now = 0
    /\ \/ target = NoDir
       \/ \E old \in SUBSET OldEntries :
             target = [exists |-> TRUE, entries |-> [p \in old |-> <<"old">>]]

NextScaffold == scaffold_project

SpecScaffold == InitScaffold /\ [][NextScaffold]_vars

ValidTemplateNames == {"simple", "pytorch", "tensorflow", "sklearn"}

\* C23: scaffold_project on an existing target directory without force raises
\* FileExistsError and leaves the directory and its contents unchanged; with
\* force, when it goes on to write the new project, every pre-existing entry
\* has been removed: the directory holds what this call created and nothing
\* else; with a template outside simple, pytorch, tensorflow, sklearn it
\* raises ValueError and changes nothing, also with force on an existing
\* target.
C23_ScaffoldExistingTarget ==
    [][outcome'.op = "scaffold_project" =>
          LET template == outcome'.name
              force == outcome'.arg.force
          IN /\ template \notin ValidTemplateNames =>
                   (outcome'.raised /\ outcome'.err = "ValueError" /\ target' = target)
             /\ (template \in ValidTemplateNames /\ target.exists /\ ~force) =>
                   (outcome'.raised /\ outcome'.err = "FileExistsError" /\ target' = target)
             /\ (template \in ValidTemplateNames /\ target.exists /\ force) =>
                   \/ outcome'.raised /\ target' = target
                   \/ /\ ~outcome'.raised /\ target'.exists
                      /\ DOMAIN target'.entries = outcome'.ret
                      /\ \A p \in DOMAIN target'.entries :
                            target'.entries[p] # <<"old">>
                            /\ (p \in MappedFiles => target'.entries[p] = <<"rendered", template>>)
                      /\ \A p \in DOMAIN target.entries :
                            p \notin outcome'.ret => p \notin DOMAIN target'.entries]_vars

\* the target held old_file.txt and an old train.py; the forced call skipped
\* train.py and left neither
C23_Witness ==
    /\ outcome.op = "scaffold_project" /\ ~outcome.raised /\ outcome.arg.force
    /\ outcome.arg.found.exists
    /\ DOMAIN outcome.arg.found.entries = {<<"old_file.txt">>, <<"train.py">>}
    /\ <<"train.py">> \notin DOMAIN target.entries
    /\ <<"old_file.txt">> \notin DOMAIN target.entries
    /\ <<"README.md">> \in DOMAIN target.entries

\* ------------------------------------------------------- round trip steps
InitPath ==
    /\ path \in RelPaths
    /\ key = <<>>
    /\ restored = <<>>
    /\ ppc = "start"
    /\ WaitIdle /\ OpIdle
    /\ configmaps = {} /\ jobs = {} /\ deployments = {} /\ services = {} /\ tree = <<>>
    /\ now = 0

\* create_configmap_from_path computes the key of one file
PackKey ==
    /\ ppc = "start"
    /\ key' = EncodeKey(path)
    /\ ppc' = "encoded"
    /\ UNCHANGED <<path, restored>>
    /\ UNCHANGED <<clusterVars, now, tree, target, cmd, opVars, waitVars, listVars>>

\* the entrypoint's loop body for one mounted key
UnpackKey ==
    /\ ppc = "encoded"
    /\ restored' = DecodeKey(key)
    /\ ppc' = "decoded"
    /\ UNCHANGED <<path, key>>
    /\ UNCHANGED <<clusterVars, now, tree, target, cmd, opVars, waitVars, listVars>>

NextPath == PackKey \/ UnpackKey

SpecPath == InitPath /\ [][NextPath]_vars

\* C4: for every relative path with no literal "__", encoding it to a bundle
\* key and decoding the key as the entrypoint does yields the original path.
C4_RoundTrip ==
    (ppc = "decoded" /\ ~Contains(path, <<"_", "_">>)) => restored = path

====
